---- MODULE Spec2Model ----
(***************************************************************************)
(* Evenk: a model of the library's synchronization primitives, its queues, *)
(* its task objects and the thread pool.  Each component has its own       *)
(* next-state relation over its own variables; the variables of the other  *)
(* components keep their initial values under it.                          *)
(*                                                                         *)
(*   SpecTicket     ticket_lock (spinlock.h)                               *)
(*   SpecFutex      futex_lock and futex_cond_var (synch.h), any calls     *)
(*   SpecNotify     the same, threads that follow a script, fair           *)
(*   SpecRing       bounded_queue::ring (bounded_queue.h)                  *)
(*   SpecRingBench  the ring closed once after the last push, fair         *)
(*   SpecPool       thread_pool (thread_pool.h) over a queue that hands    *)
(*                  every popped task to the worker                        *)
(*   SpecPoolFault  the same, with tasks that may throw                    *)
(*   SpecPoolTest   thread_pool<synch_queue> with tasks of class task, as  *)
(*                  in thread_pool-test.cc, fair                           *)
(*   SpecQueue      synch_queue (synch_queue.h)                            *)
(*   SpecTask       task (task.h)                                          *)
(***************************************************************************)
EXTENDS Integers, Sequences, FiniteSets, TLC

(***************************************************************************)
(* State                                                                   *)
(***************************************************************************)

\* ticket_lock and the threads that use it.
VARIABLES
    tl_head,      \* ticket_lock::head_
    tl_tail,      \* ticket_lock::tail_
    tl_pc,        \* position of every thread in lock / try_lock / unlock
    tl_ticket,    \* lock(): the local "tail"; try_lock(): the local "tail"
    tl_lhead,     \* try_lock(): the local "head"
    tl_seq,       \* history: the number of tickets handed out before this one
    tl_via,       \* history: how the thread got into the critical section
    tl_issued     \* history: number of increments of tail_ so far

tl_vars == <<tl_head, tl_tail, tl_pc, tl_ticket, tl_lhead, tl_seq, tl_via, tl_issued>>

\* futex_lock, futex_cond_var and the threads that use them.
VARIABLES
    fl_futex,     \* futex_lock::futex_ of every lock (0 free, 1 held, 2 held with
                  \* waiters)
    fl_waitq,     \* threads parked by the kernel on the word of every lock
    cv_futex,     \* futex_cond_var::futex_ (change counter)
    cv_count,     \* futex_cond_var::count_ (waiter count)
    cv_owner,     \* futex_cond_var::owner_ (0: nullptr)
    cv_waitq,     \* threads parked by the kernel on the change counter
    f_pc,         \* position of every thread
    f_value,      \* the local "value" of wait() until its futex_wait
    f_owns,       \* lock_guard::owns_lock_ of the thread's guard
    f_mutex,      \* lock_guard::mutex_ of the thread's guard
    f_fault,      \* the last std::system_error the thread's guard has thrown
    f_holds,      \* history: the thread is between an acquisition and its release
    f_how,        \* history: the operation that made the thread the holder
    f_script,     \* the calls a thread makes, in order (<<>>: any calls)
    f_ip,         \* number of calls of its script a thread has started
    f_mode,       \* "free": every thread makes any calls; "script": f_script
    f_notifies,   \* history: number of notify calls so far
    f_spurious,   \* history: number of futex_wait calls that returned unwoken
    f_target,     \* history: the sole waiter a running notify_one is aimed at
    f_notified,   \* history: waiters a complete notify_one was aimed at
    f_all         \* history: waiters a notify_all found parked, until they return
                  \* (pending), and those it moved to the lock's word (moved)

f_vars == <<fl_futex, fl_waitq, cv_futex, cv_count, cv_owner, cv_waitq, f_pc,
            f_value, f_owns, f_mutex, f_fault, f_holds, f_how, f_script, f_ip, f_mode,
            f_notifies, f_spurious, f_target, f_notified, f_all>>

\* The bounded ring queue (bounded_queue.h, class ring) and its threads.
VARIABLES
    r_ring,       \* the specialization: "spsc", "spmc", "mpsc" or "mpmc"
    r_slot,       \* the slot wait strategy: "spin", "yield", "futex", "synch"
    r_env,        \* "bench": close() is called after the last push has returned
                  \* (queue-bench.cc); "any": close() is called at any time
    r_head,       \* ring::head_
    r_tail,       \* ring::tail_
    r_closed,     \* ring::closed_ (0 open, 1 closing, 2 closed)
    r_last,       \* ring::last_
    r_word,       \* the token of every slot (ticket and status flags)
    r_cell,       \* the value of every slot
    r_parked,     \* threads blocked on every slot (futex or condition variable)
    r_th,         \* every thread's position and locals
    r_prod,       \* every producer: pushes it may still start, number of its next value,
                  \* and (history) whether its last push began after a close() had returned
    r_pushed,     \* history: values whose wait_push returned success
    r_deliv,      \* history: <<value, ticket>> of every wait_pop that returned success
    r_closes,     \* history: number of calls of close() so far
    r_applied,    \* history: number of times close() moved tail_ forward
    r_late,       \* history: a push was in flight when, or began after, close() was called
    r_base,       \* the value of head_ at the start: the calls of wait_pop before it
    r_obs         \* the thread that calls is_empty() and is_full(): its position,
                  \* its locals, and what its last call saw and returned

r_vars == <<r_ring, r_slot, r_env, r_head, r_tail, r_closed, r_last, r_word, r_cell,
            r_parked, r_th, r_prod, r_pushed, r_deliv, r_closes, r_applied, r_late,
            r_base, r_obs>>

\* The thread pool (thread_pool.h) over a synch_queue (synch_queue.h).
VARIABLES
    p_flags,      \* thread_pool_base::flags_
    p_queue,      \* synch_queue::queue_ of the pool's queue_: the tasks, in order
    p_qclosed,    \* synch_queue::closed_ of the pool's queue_
    p_qwait,      \* workers waiting on synch_queue::cond_
    p_joinlock,   \* the client that holds join_lock_, or 0
    p_joindone,   \* thread_pool_base::join_done_
    p_w,          \* every worker's position in work() and the task it popped
    p_c,          \* every client's position and locals
    p_counter,    \* the counter the tasks increment (thread_pool-test.cc)
    p_dtor,       \* the destructor: "none", "stop", "wait", "ended" or "aborted"
    p_runs,       \* history: number of invocations of every task
    p_joined,     \* history: number of calls of join() on every worker
    p_closes,     \* history: number of calls of queue_.close()
    p_stops,      \* history: number of calls of stop(), the destructor's included
    p_accepted,   \* history: tasks whose submit() returned normally
    p_refused,    \* history: tasks whose submit() threw queue_op_status::closed
    p_atstop,     \* history: tasks that were in the queue when a stop() returned
    p_must,       \* history: tasks accepted before a wait() that has returned
                  \* with no stop() called so far
    p_waited,     \* history: number of calls of wait() that have returned
    p_early       \* history: a wait() returned before all workers had exited

p_vars == <<p_flags, p_queue, p_qclosed, p_qwait, p_joinlock, p_joindone, p_w, p_c,
            p_counter, p_dtor, p_runs, p_joined, p_closes, p_stops, p_accepted,
            p_refused, p_atstop, p_must, p_waited, p_early>>

\* Task objects (task.h, class task) and the program that uses them.
VARIABLES
    tk_obj,       \* every task object: alive or not, how it was made, its fields;
                  \* history: the target it began with and the moves since
    tk_calls,     \* history: number of invocations of every target
    tk_last,      \* history: the last operation and its outcome
    tk_crashed,   \* the program has been terminated
    tk_mem        \* what memory_ and the allocator of every task object hold, the
                  \* cells of the heap; history: what the last operation destroyed
                  \* and deallocated

tk_vars == <<tk_obj, tk_calls, tk_last, tk_crashed, tk_mem>>

\* A synch_queue (synch_queue.h) and the threads that use it.
VARIABLES
    q_buf,        \* synch_queue::queue_
    q_closed,     \* synch_queue::closed_
    q_lock,       \* the thread that holds synch_queue::lock_, or 0
    q_cond,       \* threads waiting on synch_queue::cond_
    q_th,         \* every thread's position, operation, value and last status
    q_in,         \* history: the values appended to queue_, in order
    q_out         \* history: the values removed from queue_, in order

q_vars == <<q_buf, q_closed, q_lock, q_cond, q_th, q_in, q_out>>

vars == <<tl_vars, f_vars, r_vars, p_vars, tk_vars, q_vars>>

\* What the steps of one component leave alone: the other components.
TLOthers == UNCHANGED <<f_vars, r_vars, p_vars, tk_vars, q_vars>>
FOthers == UNCHANGED <<tl_vars, r_vars, p_vars, tk_vars, q_vars>>
ROthers == UNCHANGED <<tl_vars, f_vars, p_vars, tk_vars, q_vars>>
POthers == UNCHANGED <<tl_vars, f_vars, r_vars, tk_vars, q_vars>>
TKOthers == UNCHANGED <<tl_vars, f_vars, r_vars, p_vars, q_vars>>
QOthers == UNCHANGED <<tl_vars, f_vars, r_vars, p_vars, tk_vars>>

(***************************************************************************)
(* ticket_lock                                                             *)
(***************************************************************************)

\* Width in bits of ticket_lock::base_type in the model.  The source uses
\* std::uint16_t; the model keeps the modular arithmetic with a narrower
\* counter so that the wrap of head_ and tail_ is within reach.
TicketBits == 2

\* Number of threads that use the ticket lock.
TicketThreads == 3

\* Cap on the number of increments of tail_ (tickets handed out).
MaxTickets == 6


RECURSIVE Pow2(_)
Pow2(n) == IF n = 0 THEN 1 ELSE 2 * Pow2(n - 1)

\* base_type arithmetic: values wrap modulo 2^TicketBits.
TicketMod == Pow2(TicketBits)

TLThreads == 1..TicketThreads

TLInit ==
    /\ tl_head = 0
    /\ tl_tail = 0
    /\ tl_pc = [t \in TLThreads |-> "idle"]
    /\ tl_ticket = [t \in TLThreads |-> 0]
    /\ tl_lhead = [t \in TLThreads |-> 0]
    /\ tl_seq = [t \in TLThreads |-> 0]
    /\ tl_via = [t \in TLThreads |-> "none"]
    /\ tl_issued = 0

\* lock(backoff), line 108: tail = tail_.fetch_add(1)
TLLockTicket(t) ==
    /\ tl_pc[t] = "idle"
    /\ tl_issued < MaxTickets
    /\ tl_ticket' = [tl_ticket EXCEPT ![t] = tl_tail]
    /\ tl_tail' = (tl_tail + 1) % TicketMod
    /\ tl_seq' = [tl_seq EXCEPT ![t] = tl_issued]
    /\ tl_issued' = tl_issued + 1
    /\ tl_pc' = [tl_pc EXCEPT ![t] = "spin"]
    /\ UNCHANGED <<tl_head, tl_lhead, tl_via>>
    /\ TLOthers

\* lock(backoff), lines 110-112: the test that ends the wait loop.
TLTurn(t) == tl_ticket[t] = tl_head

\* lock(backoff), lines 109-114: one round of the loop.  When the ticket is
\* not yet served the back-off runs (it touches no lock state) and the loop
\* repeats.
TLLockSpin(t) ==
    /\ tl_pc[t] = "spin"
    /\ IF TLTurn(t)
         THEN /\ tl_pc' = [tl_pc EXCEPT ![t] = "cs"]
              /\ tl_via' = [tl_via EXCEPT ![t] = "lock"]
         ELSE UNCHANGED <<tl_pc, tl_via>>
    /\ UNCHANGED <<tl_head, tl_tail, tl_ticket, tl_lhead, tl_seq, tl_issued>>
    /\ TLOthers

\* try_lock(), line 119: head = head_.load()
TLTryLoadHead(t) ==
    /\ tl_pc[t] = "idle"
    /\ tl_issued < MaxTickets
    /\ tl_lhead' = [tl_lhead EXCEPT ![t] = tl_head]
    /\ tl_pc' = [tl_pc EXCEPT ![t] = "try_tail"]
    /\ UNCHANGED <<tl_head, tl_tail, tl_ticket, tl_seq, tl_via, tl_issued>>
    /\ TLOthers

\* try_lock(), line 120: tail = tail_.load()
TLTryLoadTail(t) ==
    /\ tl_pc[t] = "try_tail"
    /\ tl_ticket' = [tl_ticket EXCEPT ![t] = tl_tail]
    /\ tl_pc' = [tl_pc EXCEPT ![t] = "try_cas"]
    /\ UNCHANGED <<tl_head, tl_tail, tl_lhead, tl_seq, tl_via, tl_issued>>
    /\ TLOthers

\* try_lock(), lines 121-123: head == tail && tail_.compare_exchange_strong(
\* tail, tail + 1).  The result is true when both hold.  (The locals of a
\* call that is over are set back to 0: they are dead.)
TLTryCas(t) ==
    /\ tl_pc[t] = "try_cas"
    /\ IF tl_lhead[t] = tl_ticket[t] /\ tl_tail = tl_ticket[t] /\ tl_issued < MaxTickets
         THEN /\ tl_tail' = (tl_tail + 1) % TicketMod
              /\ tl_seq' = [tl_seq EXCEPT ![t] = tl_issued]
              /\ tl_issued' = tl_issued + 1
              /\ tl_pc' = [tl_pc EXCEPT ![t] = "cs"]
              /\ tl_via' = [tl_via EXCEPT ![t] = "try_lock"]
              /\ UNCHANGED tl_ticket
         ELSE /\ tl_pc' = [tl_pc EXCEPT ![t] = "idle"]
              /\ tl_ticket' = [tl_ticket EXCEPT ![t] = 0]
              /\ UNCHANGED <<tl_tail, tl_seq, tl_issued, tl_via>>
    /\ tl_lhead' = [tl_lhead EXCEPT ![t] = 0]
    /\ UNCHANGED tl_head
    /\ TLOthers

\* A slip in unlock(): head_ advanced by two.
TLHeadAfterUnlockBy2 == (tl_head + 2) % TicketMod

\* unlock(), line 128: the value of head_ after head_.fetch_add(1)
TLHeadAfterUnlock == (tl_head + 1) % TicketMod

\* unlock(), lines 126-129
TLUnlock(t) ==
    /\ tl_pc[t] = "cs"
    /\ tl_head' = TLHeadAfterUnlock
    /\ tl_pc' = [tl_pc EXCEPT ![t] = "idle"]
    /\ tl_via' = [tl_via EXCEPT ![t] = "none"]
    /\ tl_ticket' = [tl_ticket EXCEPT ![t] = 0]
    /\ tl_seq' = [tl_seq EXCEPT ![t] = 0]
    /\ UNCHANGED <<tl_tail, tl_lhead, tl_issued>>
    /\ TLOthers

(***************************************************************************)
(* futex_lock, lock_guard and futex_cond_var                               *)
(***************************************************************************)

\* Number of threads that use the futex lock and the condition variable.
FutexThreads == 3

\* Cap on the number of notify_one / notify_all calls (increments of the
\* condition variable's futex_ word).
MaxNotify == 2

\* Cap on the number of futex_wait calls that return without a wake-up.
MaxSpurious == 1


FThreads == 1..FutexThreads

\* Number of futex_lock objects.
FutexLocks == 2

FLocks == 1..FutexLocks

\* The futex words are std::uint32_t.  Within the caps above they stay far
\* from 2^32 (the lock word in 0..2, the counters below the caps), so their
\* arithmetic is written without the wrap.

\* No exception has been thrown.
FNoFault == [op |-> "none", error |-> "none"]

FInitWith(mode, script, mutex) ==
    /\ fl_futex = [l \in FLocks |-> 0]
    /\ fl_waitq = [l \in FLocks |-> {}]
    /\ cv_futex = 0
    /\ cv_count = 0
    /\ cv_owner = 0
    /\ cv_waitq = {}
    /\ f_pc = [t \in FThreads |-> "ready"]
    /\ f_value = [t \in FThreads |-> 0]
    /\ f_owns = [t \in FThreads |-> FALSE]
    /\ f_mutex = mutex
    /\ f_fault = [t \in FThreads |-> FNoFault]
    /\ f_holds = [t \in FThreads |-> FALSE]
    /\ f_how = [t \in FThreads |-> "none"]
    /\ f_script = script
    /\ f_ip = [t \in FThreads |-> 0]
    /\ f_mode = mode
    /\ f_notifies = 0
    /\ f_spurious = 0
    /\ f_target = [t \in FThreads |-> 0]
    /\ f_notified = {}
    /\ f_all = [pending |-> {}, moved |-> {}]

\* Every thread's guard is on the first lock.
FOneLock == [t \in FThreads |-> 1]

FInit == FInitWith("free", [t \in FThreads |-> <<>>], FOneLock)

\* The position at which a thread parked in futex_wait goes on when it
\* returns: lock() line 106, wait() line 296, wait() line 298.
FAfterWait(pc) ==
    CASE pc = "lk_parked" -> "lk_xchg"
      [] pc = "cv_parked" -> "cv_dec"
      [] pc = "cvl_parked" -> "cv_xchg"
      [] OTHER -> pc

\* A thread may start the call op: any call in free mode, the next call of
\* its script otherwise.
FMayStart(t, op) ==
    /\ f_pc[t] = "ready"
    /\ IF f_mode = "free"
         THEN TRUE
         ELSE f_ip[t] < Len(f_script[t]) /\ f_script[t][f_ip[t] + 1] = op

FStarted(t) == f_ip' = [f_ip EXCEPT ![t] = IF f_mode = "free" THEN 0 ELSE @ + 1]

\* What every step leaves alone unless it says otherwise.
FKeepCond ==
    UNCHANGED <<cv_futex, cv_count, cv_owner, cv_waitq, f_notifies, f_target, f_notified, f_all>>
FKeepLock == UNCHANGED <<fl_futex, fl_waitq>>
FKeepMisc == UNCHANGED <<f_script, f_mode, f_spurious, f_mutex, f_fault>> /\ FOthers

\* A slip in lock_guard: owns_lock_ is never found set.
FGuardOwnsNever(t) == FALSE

\* lock_guard, lines 183, 192, 200 and 208: the test of owns_lock_.
FGuardOwns(t) == f_owns[t]

\* throw_system_error(err), basic.h lines 36-40: the call of the guard ends
\* with a std::system_error and nothing else is done.
FGuardThrow(t, op, error) ==
    /\ FMayStart(t, op)
    /\ FStarted(t)
    /\ f_fault' = [f_fault EXCEPT ![t] = [op |-> op, error |-> error]]
    /\ UNCHANGED <<f_pc, f_value, f_owns, f_holds, f_how>>
    /\ UNCHANGED <<f_script, f_mode, f_spurious, f_mutex>>
    /\ FKeepLock /\ FKeepCond /\ FOthers

\* lock_guard::lock() and lock(backoff), lines 183-184 and 192-193, on a
\* guard that owns the lock.
FLockOwned(t) ==
    /\ FGuardOwns(t)
    /\ FGuardThrow(t, "lock", "resource_deadlock_would_occur")

\* lock_guard::try_lock(), lines 200-201, on a guard that owns the lock.
FTryLockOwned(t) ==
    /\ FGuardOwns(t)
    /\ FGuardThrow(t, "try_lock", "resource_deadlock_would_occur")

\* lock_guard::unlock(), lines 208-209, on a guard that does not own the
\* lock.
FUnlockNotOwned(t) ==
    /\ ~FGuardOwns(t)
    /\ FGuardThrow(t, "unlock", "operation_not_permitted")

\* The thread returned from an acquisition: it is the holder from now on.
FAcquired(t, how) ==
    /\ f_holds' = [f_holds EXCEPT ![t] = TRUE]
    /\ f_how' = [f_how EXCEPT ![t] = how]

\* A slip in the fast path: the compare-and-swap also succeeds on 1.
FLCasSucceedsOn1(t) == fl_futex[f_mutex[t]] \in {0, 1}

\* lock(backoff) line 99, try_lock() line 117: compare_exchange_strong(value
\* = 0, 1) succeeds exactly when the word is 0.
FLCasSucceeds(t) == fl_futex[f_mutex[t]] = 0

\* lock(backoff), lines 101-110, after a failed compare-and-swap that read
\* "value": backoff() tells whether its ceiling is reached (no_backoff:
\* always; yield_backoff: never; the others: in time).  At the ceiling the
\* thread goes to futex_wait when value is 2 and to the exchange otherwise;
\* below it, it tries the compare-and-swap again.  A script calls lock(),
\* lines 90-93: no_backoff.
FLockAfterFailedCas(t, value) ==
    \E ceiling \in (IF f_mode = "free" THEN BOOLEAN ELSE {TRUE}) :
        f_pc' = [f_pc EXCEPT ![t] =
                     IF ceiling
                       THEN (IF value = 2 THEN "lk_wait" ELSE "lk_xchg")
                       ELSE "lk_cas"]

\* lock(backoff), lines 98-111: one round of the loop, the compare-and-swap
\* and, when it fails, the back-off.
FLockRound(t) ==
    IF FLCasSucceeds(t)
      THEN /\ fl_futex' = [fl_futex EXCEPT ![f_mutex[t]] = 1]
           /\ f_pc' = [f_pc EXCEPT ![t] = "ready"]
           /\ f_owns' = [f_owns EXCEPT ![t] = TRUE]
           /\ FAcquired(t, "lock")
      ELSE /\ FLockAfterFailedCas(t, fl_futex[f_mutex[t]])
           /\ UNCHANGED <<fl_futex, f_owns, f_holds, f_how>>

\* lock_guard::lock(), lines 181-187 and 189-196, entering futex_lock::
\* lock(backoff), lines 96-100.
FLockStart(t) ==
    /\ FMayStart(t, "lock")
    /\ ~FGuardOwns(t)
    /\ FStarted(t)
    /\ FLockRound(t)
    /\ UNCHANGED <<fl_waitq, f_value>>
    /\ FKeepCond /\ FKeepMisc

\* lock(backoff), lines 99-100: the compare-and-swap of a later round.
FLockCas(t) ==
    /\ f_pc[t] = "lk_cas"
    /\ FLockRound(t)
    /\ UNCHANGED <<fl_waitq, f_value, f_ip>>
    /\ FKeepCond /\ FKeepMisc

\* lock(backoff), lines 103 and 106: futex_.exchange(2); the lock is taken
\* when the old value is 0.
FLockXchg(t) ==
    /\ f_pc[t] = "lk_xchg"
    /\ fl_futex' = [fl_futex EXCEPT ![f_mutex[t]] = 2]
    /\ IF fl_futex[f_mutex[t]] = 0
         THEN /\ f_pc' = [f_pc EXCEPT ![t] = "ready"]
              /\ f_owns' = [f_owns EXCEPT ![t] = TRUE]
              /\ FAcquired(t, "lock")
         ELSE /\ f_pc' = [f_pc EXCEPT ![t] = "lk_wait"]
              /\ UNCHANGED <<f_owns, f_holds, f_how>>
    /\ UNCHANGED <<fl_waitq, f_value, f_ip>>
    /\ FKeepCond /\ FKeepMisc

\* futex_wait(word, expected) of thread t, parking it as "parked": the
\* kernel parks the thread only if the word still holds the expected value.
FutexWaitLock(t, parked, woken) ==
    IF fl_futex[f_mutex[t]] = 2
      THEN /\ fl_waitq' = [fl_waitq EXCEPT ![f_mutex[t]] = @ \cup {t}]
           /\ f_pc' = [f_pc EXCEPT ![t] = parked]
      ELSE /\ f_pc' = [f_pc EXCEPT ![t] = woken]
           /\ UNCHANGED fl_waitq

\* lock(backoff), line 105: futex_wait(futex_, 2)
FLockWait(t) ==
    /\ f_pc[t] = "lk_wait"
    /\ FutexWaitLock(t, "lk_parked", "lk_xchg")
    /\ UNCHANGED <<fl_futex, f_value, f_owns, f_holds, f_how, f_ip>>
    /\ FKeepCond /\ FKeepMisc

\* lock_guard::try_lock(), lines 198-204, with futex_lock::try_lock(),
\* lines 114-119.
FTryLock(t) ==
    /\ FMayStart(t, "try_lock")
    /\ ~FGuardOwns(t)
    /\ FStarted(t)
    /\ f_owns' = [f_owns EXCEPT ![t] = FLCasSucceeds(t)]
    /\ IF FLCasSucceeds(t)
         THEN /\ fl_futex' = [fl_futex EXCEPT ![f_mutex[t]] = 1]
              /\ FAcquired(t, "try_lock")
         ELSE UNCHANGED <<fl_futex, f_holds, f_how>>
    /\ UNCHANGED <<fl_waitq, f_pc, f_value>>
    /\ FKeepCond /\ FKeepMisc

\* A slip in unlock(): the word is decremented and nothing else is done.
FLUnlockNeverWakes(old) == FALSE

\* A slip in unlock(): the word is reset and a waiter woken whatever
\* fetch_sub returned.
FLUnlockAlwaysWakes(old) == TRUE

\* unlock(), line 123: the test on the value fetch_sub returned.
FLUnlockContended(old) == old # 1

\* futex_lock::unlock(), line 123: futex_.fetch_sub(1)
FUnlockSub(t, store, done) ==
    /\ fl_futex' = [fl_futex EXCEPT ![f_mutex[t]] = @ - 1]
    /\ f_pc' = [f_pc EXCEPT ![t] =
                    IF FLUnlockContended(fl_futex[f_mutex[t]]) THEN store ELSE done]
    /\ f_holds' = [f_holds EXCEPT ![t] = FALSE]
    /\ f_how' = [f_how EXCEPT ![t] = "none"]
    /\ UNCHANGED fl_waitq

\* futex_lock::unlock(), line 124: futex_.store(0)
FUnlockStore(t, wake) ==
    /\ fl_futex' = [fl_futex EXCEPT ![f_mutex[t]] = 0]
    /\ f_pc' = [f_pc EXCEPT ![t] = wake]
    /\ UNCHANGED fl_waitq

\* futex_lock::unlock(), line 125: futex_wake(futex_, 1) wakes one of the
\* threads parked on the lock word, if there is one.
FUnlockWake(t, done) ==
    /\ IF fl_waitq[f_mutex[t]] = {}
         THEN /\ f_pc' = [f_pc EXCEPT ![t] = done]
              /\ UNCHANGED fl_waitq
         ELSE \E w \in fl_waitq[f_mutex[t]] :
                /\ fl_waitq' = [fl_waitq EXCEPT ![f_mutex[t]] = @ \ {w}]
                /\ f_pc' = [f_pc EXCEPT ![t] = done, ![w] = FAfterWait(f_pc[w])]
    /\ UNCHANGED fl_futex

\* lock_guard::unlock(), lines 206-212 (and ~lock_guard, lines 175-179),
\* entering futex_lock::unlock().
FUnlockStart(t) ==
    /\ FMayStart(t, "unlock")
    /\ FGuardOwns(t)
    /\ FStarted(t)
    /\ FUnlockSub(t, "ul_store", "ready")
    /\ f_owns' = [f_owns EXCEPT ![t] = FALSE]
    /\ UNCHANGED f_value
    /\ FKeepCond /\ FKeepMisc

FUnlockStoreStep(t) ==
    /\ f_pc[t] = "ul_store"
    /\ FUnlockStore(t, "ul_wake")
    /\ UNCHANGED <<f_value, f_owns, f_holds, f_how, f_ip>>
    /\ FKeepCond /\ FKeepMisc

FUnlockWakeStep(t) ==
    /\ f_pc[t] = "ul_wake"
    /\ FUnlockWake(t, "ready")
    /\ UNCHANGED <<f_value, f_owns, f_holds, f_how, f_ip>>
    /\ FKeepCond /\ FKeepMisc

\* Threads inside wait() that have let go of the lock and have not yet
\* come back from futex_wait on the change counter.
FWaiting == {w \in FThreads : f_pc[w] \in {"cvu_store", "cvu_wake", "cv_wait", "cv_parked"}}

\* A slip in wait(): the waiter count is not incremented.
CVCountAfterIncSkipped == cv_count

\* wait(), line 288: the value of count_ after count_.fetch_add(1)
CVCountAfterInc == cv_count + 1

\* wait(), line 279: owner_ != nullptr && owner_ != owner
CVOwnerDiffers(owner) == cv_owner # 0 /\ cv_owner # owner

\* futex_cond_var::wait(), lines 278-284: owner = guard.mutex() and the
\* check of owner_.  When it fails std::terminate() ends the program: no
\* thread takes a step any more.
CVWaitStart(t) ==
    /\ FMayStart(t, "wait")
    /\ f_owns[t]
    /\ FStarted(t)
    /\ f_pc' = IF CVOwnerDiffers(f_mutex[t])
                 THEN [u \in FThreads |-> "terminated"]
                 ELSE [f_pc EXCEPT ![t] = "cv_owner"]
    /\ UNCHANGED <<f_value, f_owns, f_holds, f_how>>
    /\ FKeepLock /\ FKeepCond /\ FKeepMisc

\* wait(), lines 286-288: the store of owner_ and the increment of count_.
CVWaitOwner(t) ==
    /\ f_pc[t] = "cv_owner"
    /\ cv_owner' = f_mutex[t]
    /\ cv_count' = CVCountAfterInc
    /\ f_pc' = [f_pc EXCEPT ![t] = "cv_load"]
    /\ UNCHANGED <<cv_futex, cv_waitq, f_notifies, f_target, f_notified, f_all>>
    /\ UNCHANGED <<f_value, f_owns, f_holds, f_how, f_ip>>
    /\ FKeepLock /\ FKeepMisc

\* wait(), line 290: value = futex_.load()
CVWaitLoad(t) ==
    /\ f_pc[t] = "cv_load"
    /\ f_value' = [f_value EXCEPT ![t] = cv_futex]
    /\ f_pc' = [f_pc EXCEPT ![t] = "cvu_sub"]
    /\ UNCHANGED <<f_owns, f_holds, f_how, f_ip>>
    /\ FKeepLock /\ FKeepCond /\ FKeepMisc

\* wait(), line 292: owner->unlock(), its three steps.
CVWaitUnlockSub(t) ==
    /\ f_pc[t] = "cvu_sub"
    /\ FUnlockSub(t, "cvu_store", "cv_wait")
    /\ UNCHANGED <<f_value, f_owns, f_ip>>
    /\ FKeepCond /\ FKeepMisc

CVWaitUnlockStore(t) ==
    /\ f_pc[t] = "cvu_store"
    /\ FUnlockStore(t, "cvu_wake")
    /\ UNCHANGED <<f_value, f_owns, f_holds, f_how, f_ip>>
    /\ FKeepCond /\ FKeepMisc

CVWaitUnlockWake(t) ==
    /\ f_pc[t] = "cvu_wake"
    /\ FUnlockWake(t, "cv_wait")
    /\ UNCHANGED <<f_value, f_owns, f_holds, f_how, f_ip>>
    /\ FKeepCond /\ FKeepMisc

\* wait(), line 294: futex_wait(futex_, value) parks the thread only if the
\* change counter still holds the value read at line 290.
CVWaitFutex(t) ==
    /\ f_pc[t] = "cv_wait"
    /\ IF cv_futex = f_value[t]
         THEN /\ cv_waitq' = cv_waitq \cup {t}
              /\ f_pc' = [f_pc EXCEPT ![t] = "cv_parked"]
         ELSE /\ f_pc' = [f_pc EXCEPT ![t] = "cv_dec"]
              /\ UNCHANGED cv_waitq
    /\ f_value' = [f_value EXCEPT ![t] = 0]
    /\ UNCHANGED <<cv_futex, cv_count, cv_owner, f_notifies, f_target, f_notified, f_all>>
    /\ UNCHANGED <<f_owns, f_holds, f_how, f_ip>>
    /\ FKeepLock /\ FKeepMisc

\* wait(), line 297: count_.fetch_sub(1)
CVWaitDec(t) ==
    /\ f_pc[t] = "cv_dec"
    /\ cv_count' = cv_count - 1
    /\ f_pc' = [f_pc EXCEPT ![t] = "cv_xchg"]
    /\ UNCHANGED <<cv_futex, cv_owner, cv_waitq, f_notifies, f_target, f_notified, f_all>>
    /\ UNCHANGED <<f_value, f_owns, f_holds, f_how, f_ip>>
    /\ FKeepLock /\ FKeepMisc

\* wait(), line 298: owner_futex.exchange(2); wait() returns with the lock
\* when the old value is 0.
CVWaitXchg(t) ==
    /\ f_pc[t] = "cv_xchg"
    /\ fl_futex' = [fl_futex EXCEPT ![f_mutex[t]] = 2]
    /\ IF fl_futex[f_mutex[t]] = 0
         THEN /\ f_pc' = [f_pc EXCEPT ![t] = "ready"]
              /\ FAcquired(t, "wait")
              /\ f_notified' = f_notified \ {t}
              /\ f_all' = [f_all EXCEPT !.pending = @ \ {t}]
         ELSE /\ f_pc' = [f_pc EXCEPT ![t] = "cvl_wait"]
              /\ UNCHANGED <<f_holds, f_how, f_notified, f_all>>
    /\ UNCHANGED <<cv_futex, cv_count, cv_owner, cv_waitq, f_notifies, f_target>>
    /\ UNCHANGED <<fl_waitq, f_value, f_owns, f_ip>>
    /\ FKeepMisc

\* wait(), line 299: futex_wait(owner_futex, 2)
CVWaitLockFutex(t) ==
    /\ f_pc[t] = "cvl_wait"
    /\ FutexWaitLock(t, "cvl_parked", "cv_xchg")
    /\ UNCHANGED <<fl_futex, f_value, f_owns, f_holds, f_how, f_ip>>
    /\ FKeepCond /\ FKeepMisc

\* notify_one() line 304, notify_all() line 311: futex_.fetch_add(1)
CVNotifyInc(t, op, next) ==
    /\ FMayStart(t, op)
    /\ f_notifies < MaxNotify
    /\ FStarted(t)
    /\ f_notifies' = f_notifies + 1
    /\ cv_futex' = cv_futex + 1
    /\ f_pc' = [f_pc EXCEPT ![t] = next]
    /\ f_target' = [f_target EXCEPT ![t] =
                        IF op = "notify_one" /\ f_holds[t] /\ Cardinality(FWaiting) = 1
                          THEN CHOOSE w \in FWaiting : TRUE
                          ELSE 0]
    /\ UNCHANGED <<cv_count, cv_owner, cv_waitq, f_notified, f_all>>
    /\ UNCHANGED <<f_value, f_owns, f_holds, f_how>>
    /\ FKeepLock /\ FKeepMisc

CVNotifyOneStart(t) == CVNotifyInc(t, "notify_one", "n1_load")

\* The call of notify_one() is complete.
CVNotifyOneDone(t) ==
    /\ f_notified' = IF f_target[t] = 0 THEN f_notified ELSE f_notified \cup {f_target[t]}
    /\ f_target' = [f_target EXCEPT ![t] = 0]

\* A slip in notify_one(): the waiter count is read as zero.
CVHasWaitersNever == FALSE

\* notify_one() line 305, notify_all() line 312: count_.load() is not zero.
CVHasWaiters == cv_count # 0

\* notify_one(), line 305: if (count_.load())
CVNotifyOneLoad(t) ==
    /\ f_pc[t] = "n1_load"
    /\ IF CVHasWaiters
         THEN /\ f_pc' = [f_pc EXCEPT ![t] = "n1_wake"]
              /\ UNCHANGED <<f_target, f_notified>>
         ELSE /\ f_pc' = [f_pc EXCEPT ![t] = "ready"]
              /\ CVNotifyOneDone(t)
    /\ UNCHANGED <<cv_futex, cv_count, cv_owner, cv_waitq, f_notifies, f_all>>
    /\ UNCHANGED <<f_value, f_owns, f_holds, f_how, f_ip>>
    /\ FKeepLock /\ FKeepMisc

\* notify_one(), line 306: the count given to futex_wake.
CVWakeLimit == 1

\* A slip in notify_one(): futex_wake is told to wake one thread more.
CVWakeSetsOneMore(q) ==
    {ws \in SUBSET q :
        \/ Cardinality(ws) = CVWakeLimit + 1
        \/ ws = q /\ Cardinality(ws) < CVWakeLimit + 1}

\* futex_wake(futex_, 1): the sets of threads that the call may wake of the
\* threads q parked on the word, one of them or none when nobody is parked.
CVWakeSets(q) ==
    {ws \in SUBSET q :
        \/ Cardinality(ws) = CVWakeLimit
        \/ ws = q /\ Cardinality(ws) < CVWakeLimit}

\* notify_one(), line 306: futex_wake(futex_, 1) wakes one of the threads
\* parked on the change counter, if there is one.
CVNotifyOneWake(t) ==
    /\ f_pc[t] = "n1_wake"
    /\ \E ws \in CVWakeSets(cv_waitq) :
          /\ cv_waitq' = cv_waitq \ ws
          /\ f_pc' = [u \in FThreads |->
                         IF u = t THEN "ready"
                         ELSE IF u \in ws THEN FAfterWait(f_pc[u]) ELSE f_pc[u]]
    /\ CVNotifyOneDone(t)
    /\ UNCHANGED <<cv_futex, cv_count, cv_owner, f_notifies, f_all>>
    /\ UNCHANGED <<f_value, f_owns, f_holds, f_how, f_ip>>
    /\ FKeepLock /\ FKeepMisc

CVNotifyAllStart(t) == CVNotifyInc(t, "notify_all", "na_load")

\* notify_all(), lines 312-314: if (count_.load()) { owner = owner_.load();
\* if (owner) ...
CVNotifyAllLoad(t) ==
    /\ f_pc[t] = "na_load"
    /\ f_pc' = [f_pc EXCEPT ![t] =
                    IF CVHasWaiters /\ cv_owner # 0 THEN "na_requeue" ELSE "ready"]
    /\ UNCHANGED <<f_value, f_owns, f_holds, f_how, f_ip>>
    /\ FKeepLock /\ FKeepCond /\ FKeepMisc

\* A slip in notify_all(): the waiters that are not woken are moved nowhere.
CVRequeuedNobody(w) == {}

\* notify_all(), lines 315-318: the threads futex_requeue moves to the
\* owner's word when it wakes w: all the others that are parked on the
\* change counter (the limit is INT_MAX).
CVRequeued(w) == cv_waitq \ {w}

\* notify_all(), lines 315-318: futex_requeue(futex_, 1, INT_MAX, owner's
\* word) wakes one thread parked on the change counter and moves the others
\* to the wait queue of the lock word.
CVNotifyAllRequeue(t) ==
    /\ f_pc[t] = "na_requeue"
    /\ IF cv_waitq = {}
         THEN /\ f_pc' = [f_pc EXCEPT ![t] = "ready"]
              /\ UNCHANGED <<cv_waitq, fl_waitq>>
              /\ UNCHANGED f_all
         ELSE \E w \in cv_waitq :
                /\ cv_waitq' = {}
                /\ fl_waitq' = [fl_waitq EXCEPT ![cv_owner] = @ \cup CVRequeued(w)]
                /\ f_pc' = [f_pc EXCEPT ![t] = "ready", ![w] = FAfterWait(f_pc[w])]
                /\ f_all' = [pending |-> f_all.pending \cup cv_waitq,
                             moved |-> f_all.moved \cup CVRequeued(w)]
    /\ UNCHANGED <<cv_futex, cv_count, cv_owner, f_notifies, f_target, f_notified>>
    /\ UNCHANGED <<fl_futex, f_value, f_owns, f_holds, f_how, f_ip>>
    /\ FKeepMisc

\* futex_wait returns although no futex_wake was aimed at the thread (the
\* kernel allows it; futex.h passes the return code on and the callers
\* ignore it).
FSpuriousWake(t) ==
    /\ f_pc[t] # "terminated"
    /\ t \in cv_waitq \cup UNION {fl_waitq[l] : l \in FLocks}
    /\ f_spurious < MaxSpurious
    /\ f_spurious' = f_spurious + 1
    /\ fl_waitq' = [l \in FLocks |-> fl_waitq[l] \ {t}]
    /\ cv_waitq' = cv_waitq \ {t}
    /\ f_pc' = [f_pc EXCEPT ![t] = FAfterWait(f_pc[t])]
    /\ UNCHANGED <<fl_futex, cv_futex, cv_count, cv_owner, f_notifies, f_target, f_notified,
                   f_all>>
    /\ UNCHANGED <<f_value, f_owns, f_holds, f_how, f_ip, f_script, f_mode, f_mutex, f_fault>>
    /\ FOthers

\* thread-test.cc: "spawn" is main's construction of the thread (line 28),
\* "begin" the entry of test() (line 11), "join" main's thread.join()
\* (line 35), which returns once the thread has run its function to the end.
FHasSpawned == \E m \in FThreads : \E i \in 1..f_ip[m] : f_script[m][i] = "spawn"

FFinished(t) == f_pc[t] = "ready" /\ f_ip[t] = Len(f_script[t])

FSpawned == {u \in FThreads : Len(f_script[u]) > 0 /\ f_script[u][1] = "begin"}

FThreadStep(t) ==
    /\ \/ FMayStart(t, "spawn")
       \/ FMayStart(t, "begin") /\ FHasSpawned
       \/ FMayStart(t, "join") /\ \A u \in FSpawned : FFinished(u)
    /\ f_mode = "script"
    /\ FStarted(t)
    /\ UNCHANGED <<f_pc, f_value, f_owns, f_holds, f_how>>
    /\ FKeepLock /\ FKeepCond /\ FKeepMisc

\* The steps of thread t other than a spurious return of futex_wait.
FStep(t) ==
    \/ FLockStart(t)
    \/ FLockCas(t)
    \/ FLockXchg(t)
    \/ FLockWait(t)
    \/ FTryLock(t)
    \/ FUnlockStart(t)
    \/ FUnlockStoreStep(t)
    \/ FUnlockWakeStep(t)
    \/ CVWaitStart(t)
    \/ CVWaitOwner(t)
    \/ CVWaitLoad(t)
    \/ CVWaitUnlockSub(t)
    \/ CVWaitUnlockStore(t)
    \/ CVWaitUnlockWake(t)
    \/ CVWaitFutex(t)
    \/ CVWaitDec(t)
    \/ CVWaitXchg(t)
    \/ CVWaitLockFutex(t)
    \/ CVNotifyOneStart(t)
    \/ CVNotifyOneLoad(t)
    \/ CVNotifyOneWake(t)
    \/ CVNotifyAllStart(t)
    \/ CVNotifyAllLoad(t)
    \/ CVNotifyAllRequeue(t)

\* The steps of a thread that runs a script: the calls the scripts below
\* make.
FScriptStep(t) ==
    \/ FLockStart(t)
    \/ FLockXchg(t)
    \/ FLockWait(t)
    \/ FUnlockStart(t)
    \/ FUnlockStoreStep(t)
    \/ FUnlockWakeStep(t)
    \/ CVWaitStart(t)
    \/ CVWaitOwner(t)
    \/ CVWaitLoad(t)
    \/ CVWaitUnlockSub(t)
    \/ CVWaitUnlockStore(t)
    \/ CVWaitUnlockWake(t)
    \/ CVWaitFutex(t)
    \/ CVWaitDec(t)
    \/ CVWaitXchg(t)
    \/ CVWaitLockFutex(t)
    \/ CVNotifyOneStart(t)
    \/ CVNotifyOneLoad(t)
    \/ CVNotifyOneWake(t)
    \/ FThreadStep(t)

\* thread-test.cc, lines 9-37: main (thread 1) and test() (thread 2).
HandshakeScript ==
    [t \in FThreads |->
        CASE t = 1 -> <<"lock", "spawn", "wait", "unlock", "lock", "notify_one",
                        "unlock", "join">>
          [] t = 2 -> <<"begin", "lock", "notify_one", "wait", "unlock">>
          [] OTHER -> <<>>]

\* A waiter, a notifier and a thread that only takes and releases the lock.
WaiterNotifierScript ==
    [t \in FThreads |->
        CASE t = 1 -> <<"lock", "wait", "unlock">>
          [] t = 2 -> <<"lock", "notify_one", "unlock">>
          [] OTHER -> <<"lock", "unlock">>]

\* Two waiters and a thread that calls notify_one() once, with the lock held.
NotifyOneScript ==
    [t \in FThreads |->
        IF t = 3 THEN <<"lock", "notify_one", "unlock">> ELSE <<"lock", "wait", "unlock">>]

\* Two waiters and a thread that calls notify_all() with the lock held.
NotifyAllScript ==
    [t \in FThreads |->
        IF t = 3 THEN <<"lock", "notify_all", "unlock">> ELSE <<"lock", "wait", "unlock">>]

\* Two waiters and a thread that calls notify_all() without the lock, twice.
NotifyAllUnlockedScript ==
    [t \in FThreads |->
        IF t = 3 THEN <<"notify_all", "notify_all">> ELSE <<"lock", "wait", "unlock">>]

\* A waiter, a thread that calls notify_all() and a thread that only takes
\* and releases the lock.
NotifyAllLockerScript ==
    [t \in FThreads |->
        CASE t = 1 -> <<"lock", "wait", "unlock">>
          [] t = 2 -> <<"lock", "unlock", "lock", "unlock">>
          [] OTHER -> <<"lock", "notify_all", "unlock">>]

\* The steps of a thread that runs one of the three scripts above.
FNotifyAllStep(t) ==
    \/ FLockStart(t)
    \/ FLockXchg(t)
    \/ FLockWait(t)
    \/ FUnlockStart(t)
    \/ FUnlockStoreStep(t)
    \/ FUnlockWakeStep(t)
    \/ CVWaitStart(t)
    \/ CVWaitOwner(t)
    \/ CVWaitLoad(t)
    \/ CVWaitUnlockSub(t)
    \/ CVWaitUnlockStore(t)
    \/ CVWaitUnlockWake(t)
    \/ CVWaitFutex(t)
    \/ CVWaitDec(t)
    \/ CVWaitXchg(t)
    \/ CVWaitLockFutex(t)
    \/ CVNotifyAllStart(t)
    \/ CVNotifyAllLoad(t)
    \/ CVNotifyAllRequeue(t)

(***************************************************************************)
(* bounded_queue::ring                                                     *)
(***************************************************************************)

\* detail::status_t: the flags in the low bits of a slot token.
StatusValid == 1
StatusInvalid == 2
StatusWaiting == 4
StatusClosed == 8

\* detail::close_t: the values of ring::closed_.
CloseOpen == 0
CloseClosing == 1
CloseClosed == 2

\* The size of the ring: detail::min_size, the smallest size for which a
\* token holds both the ticket and the four status flags.
RingSize == 16

\* Width in bits of count_t and token_t in the model.  The source uses
\* std::uint32_t for both; the model keeps the modular arithmetic and the
\* signed comparisons with a narrower word.
RingCounterBits == 8

\* Number of producer, consumer and closing threads.
RingProducers == 2
RingConsumers == 2
RingClosers == 2

\* Number of calls of wait_push every producer may make.
RingPushes == 2

\* Number of values the ring may hold at the start: pushed by producer 1
\* before the first step, none of them popped.
RingPrefill == 15

RMod == Pow2(RingCounterBits)

\* Number of calls of wait_push and of wait_pop that are left, at the start
\* of a ring that has been in use, before head_ and tail_ wrap around.
RingWrapMargin == 2

\* Number of slots that may hold an invalid value at a time: an assignment
\* throws only while fewer slots do.
RingThrows == 1

\* Number of calls of wait_push the second producer makes on a ring that
\* starts almost full: enough for a ticket one lap after the first
\* producer's.
RingLapPushes == 16

\* A slip in the comparisons of counters: the difference is not taken as a
\* signed value.
RUnsigned(x) == x

\* std::make_signed_t<count_t>(x)
RSigned(x) == IF x >= RMod \div 2 THEN x - RMod ELSE x

\* A word that keeps the ticket of w and holds no flag but the given one.
RWithOnly(w, flag) == (w - (w % (2 * StatusClosed))) + flag

\* (w & flag) != 0 and w | flag, for a single-bit flag.
RHas(w, flag) == (w \div flag) % 2 = 1
RWith(w, flag) == IF RHas(w, flag) THEN w ELSE w + flag

\* w & detail::ticket_mask and w & detail::status_mask
RTicketOf(w) == w - (w % (2 * StatusClosed))
RStatusOf(w) == w % (2 * StatusInvalid)

\* ring_[count & mask_]
RSlotOf(count) == count % RingSize

RSlots == 0..(RingSize - 1)

RProd == 1..RingProducers
RCons == {10 + i : i \in 1..RingConsumers}
RClosers == {20 + i : i \in 1..RingClosers}
RThreads == RProd \cup RCons \cup RClosers

RingKinds == {"spsc", "spmc", "mpsc", "mpmc"}
SlotKinds == {"spin", "yield", "futex", "synch"}

\* spsc and spmc count tail_ with detail::counter, spsc and mpsc count head_
\* with it: such a ring has one producer, or one consumer.
RSingleProd == r_ring \in {"spsc", "spmc"}
RSingleCons == r_ring \in {"spsc", "mpsc"}

RActive(t) ==
    /\ t \in RProd /\ RSingleProd => t = 1
    /\ t \in RCons /\ RSingleCons => t = 11

\* The value a slot holds before the first push and after its value has been
\* moved out.
NoValue == <<0, 0>>

\* A thread between two calls; st is the status its last call returned.
RIdle(st) ==
    [pc |-> "idle", count |-> 0, t |-> 0, loop |-> "none", val |-> NoValue,
     i |-> 0, st |-> st]

\* A thread that makes no more calls.
RStopped(st) == [RIdle(st) EXCEPT !.pc = "done"]

\* The thread that calls is_empty() and is_full(), between two calls.  After
\* a call that ran as its comment assumes (line 299: no concurrent push,
\* line 306: no concurrent pop), res is what it returned and diff is the
\* signed difference of the counters it loaded.
RObsIdle == [pc |-> "idle", x |-> 0, n |-> 0, res |-> "none", diff |-> 0]

\* The first ticket at or after base that goes to slot s.
RNextAt(base, s) == base + ((s + RingSize - (base % RingSize)) % RingSize)

\* ring(size), lines 245-249, followed by `base` complete calls of wait_push
\* and of wait_pop, one after the other, and by `prefill` complete calls of
\* wait_push by producer 1.  `closes` of the closing threads call close(),
\* and producer p calls wait_push up to pushes[p] times.
RInitAfter(base, ring, slot, env, prefill, closes, pushes) ==
    /\ r_ring = ring
    /\ r_slot = slot
    /\ r_env = env
    /\ r_base = base
    /\ r_head = base
    /\ r_tail = (base + prefill) % RMod
    /\ r_closed = CloseOpen
    /\ r_last = 0
    /\ r_word = [s \in RSlots |->
                    IF RNextAt(base, s) - base < prefill
                    THEN RTicketOf(RNextAt(base, s) % RMod) + StatusValid
                    ELSE RTicketOf(RNextAt(base, s) % RMod)]
    /\ r_cell = [s \in RSlots |->
                    IF RNextAt(base, s) - base < prefill
                    THEN <<1, RNextAt(base, s) - base + 1>> ELSE NoValue]
    /\ r_parked = [s \in RSlots |-> {}]
    /\ r_th = [t \in RThreads |->
                  IF t \in RClosers /\ t > 20 + closes THEN RStopped("none")
                  ELSE RIdle("none")]
    /\ r_prod = [p \in RProd |->
                    [left |-> pushes[p], next |-> IF p = 1 THEN prefill + 1 ELSE 1,
                     after |-> FALSE]]
    /\ r_pushed = {<<1, n>> : n \in 1..prefill}
    /\ r_deliv = {}
    /\ r_closes = 0
    /\ r_applied = 0
    /\ r_late = FALSE
    /\ r_obs = RObsIdle

\* ring(size), lines 245-249, followed by `prefill` complete calls of
\* wait_push by producer 1.
RInitWith(ring, slot, env, prefill, closes, pushes) ==
    RInitAfter(0, ring, slot, env, prefill, closes, pushes)

\* The calls of wait_push the producers make: a by producer 1, b by producer
\* 2, none by the others.
RPushesOf(a, b) == [p \in RProd |-> IF p = 1 THEN a ELSE IF p = 2 THEN b ELSE 0]

RInitOf(c) == RInitWith(c[1], c[2], c[3], c[4], c[5], c[6])

\* The rings and the uses of them that SpecRing covers: every
\* specialization, every slot wait strategy, a ring that starts almost full,
\* and two calls of close().
RingConfigs ==
    { <<"mpmc", "spin", "any", 0, 1, RPushesOf(RingPushes, RingPushes - 1)>>,
      <<"mpmc", "spin", "any", 0, RingClosers, RPushesOf(RingPushes - 1, 0)>>,
      <<"spsc", "spin", "any", RingPrefill, 1, RPushesOf(RingPushes, 0)>>,
      <<"spmc", "yield", "bench", RingPrefill, 1, RPushesOf(RingPushes, 0)>>,
      <<"mpsc", "spin", "any", 0, 1, RPushesOf(RingPushes, RingPushes - 1)>>,
      <<"mpmc", "futex", "any", 0, 1, RPushesOf(RingPushes - 1, 0)>>,
      <<"mpmc", "synch", "any", 0, 1, RPushesOf(RingPushes - 1, 0)>>,
      <<"mpmc", "futex", "bench", 0, 1, RPushesOf(RingPushes - 1, RingPushes - 1)>> }

RInit == \E c \in RingConfigs : RInitOf(c)

\* The uses of a ring that SpecRingBench covers: close() is called once,
\* after the last push has returned, with every slot wait strategy.
RingBenchConfigs ==
    { <<"mpmc", "spin", "bench", 0, 1, RPushesOf(RingPushes - 1, RingPushes - 1)>>,
      <<"mpmc", "yield", "bench", 0, 1, RPushesOf(RingPushes - 1, RingPushes - 1)>>,
      <<"mpmc", "futex", "bench", 0, 1, RPushesOf(RingPushes - 1, RingPushes - 1)>>,
      <<"mpmc", "synch", "bench", 0, 1, RPushesOf(RingPushes - 1, RingPushes - 1)>>,
      <<"spsc", "futex", "bench", 0, 1, RPushesOf(RingPushes - 1, 0)>> }

RInitBench == \E c \in RingBenchConfigs : RInitOf(c)

\* The ring with futex slots that SpecRingFutex covers: one value is pushed,
\* two consumers call wait_pop, and close() is called once, at any time.
RingFutexConfigs ==
    { <<"mpmc", "futex", "any", 0, 1, RPushesOf(RingPushes - 1, 0)>> }

RInitFutex == \E c \in RingFutexConfigs : RInitOf(c)

\* A ring with spin slots that is never closed, filled by one producer with
\* one value more than it has slots: a new ring, and one whose counters are
\* about to wrap around.
RInitFill ==
    \E base \in {0, RMod - RingWrapMargin} :
        RInitAfter(base, "mpsc", "spin", "any", 0, 0, RPushesOf(RingSize + 1, 0))

\* Rings with spin slots that are never closed and start almost full: two
\* consumers, and two producers of which the second goes once around the
\* ring.
RInitLap ==
    \/ RInitAfter(0, "mpmc", "spin", "any", RingPrefill, 0, RPushesOf(RingPushes, 0))
    \/ RInitAfter(0, "mpsc", "spin", "any", RingPrefill, 0,
                  RPushesOf(RingPushes - 1, RingLapPushes))

\* The uses of a ring whose counters are about to wrap around: close() is
\* called once, after the last push has returned, with every slot wait
\* strategy, and one producer fills the ring and goes on.
RingWrapConfigs ==
    { <<"mpmc", "spin", "bench", 0, 1, RPushesOf(RingPushes - 1, RingPushes - 1)>>,
      <<"mpmc", "futex", "bench", 0, 1, RPushesOf(RingPushes - 1, 0)>>,
      <<"mpmc", "synch", "bench", 0, 1, RPushesOf(RingPushes - 1, 0)>>,
      <<"spsc", "futex", "bench", 0, 1, RPushesOf(RingPushes - 1, 0)>>,
      <<"mpsc", "spin", "bench", 0, 1, RPushesOf(RingSize + 1, 0)>> }

RInitWrap ==
    \E c \in RingWrapConfigs :
        RInitAfter(RMod - RingWrapMargin, c[1], c[2], c[3], c[4], c[5], c[6])

RKeepKind == UNCHANGED <<r_ring, r_slot, r_env, r_base, r_obs>> /\ ROthers

\* wait_tail(), lines 485-491, and wait_head(), lines 514-527: where the
\* loops go with the token w just read from the slot.  The result is the
\* next position and the loop the thread is in.
RAfterHead2(w) ==
    IF RStatusOf(w) = 0 THEN <<"past", "head2">>
    ELSE IF RHas(w, StatusValid) THEN <<"read", "head2">>
    ELSE <<"ticket", "none">>

\* A slip in wait_tail(): the producer does not wait for its slot.
RTailReadyAlways(count, w) == TRUE

\* A slip in wait_tail(): the producer takes the ticket of the lap before
\* for its own.
RTailReadyLapBefore(count, w) ==
    \/ RTicketOf(w) = RTicketOf(count)
    \/ (RTicketOf(w) + RingSize) % RMod = RTicketOf(count)

\* wait_tail(), line 486: the producer goes on once the slot has its ticket.
RTailReady(count, w) == RTicketOf(w) = RTicketOf(count)

\* A slip in wait_head(): the consumer does not wait for its ticket.
RHeadReadyAlways(count, w) == TRUE

\* A slip in wait_head(): the consumer takes the ticket of the lap before
\* for its own.
RHeadReadyLapBefore(count, w) ==
    \/ RTicketOf(w) = RTicketOf(count)
    \/ (RTicketOf(w) + RingSize) % RMod = RTicketOf(count)

\* wait_head(), line 515: the consumer goes on to the status once the slot
\* has its ticket.
RHeadReady(count, w) == RTicketOf(w) = RTicketOf(count)

RAfter(loop, count, w) ==
    CASE loop = "tail" ->
            IF ~RTailReady(count, w) THEN <<"past", "tail">>
            ELSE <<"write", "tail">>
      [] loop = "head1" ->
            IF ~RHeadReady(count, w) THEN <<"past", "head1">>
            ELSE RAfterHead2(w)
      [] OTHER -> RAfterHead2(w)

\* The thread's locals once it has read w from its slot.  A wait_pop that
\* found an invalid value goes for a new ticket (line 392).
RLoaded(t, w) ==
    LET a == RAfter(r_th[t].loop, r_th[t].count, w) IN
    IF a[1] = "ticket" THEN [RIdle(r_th[t].st) EXCEPT !.pc = "ticket"]
    ELSE [r_th[t] EXCEPT !.t = w, !.pc = a[1], !.loop = a[2]]

\* futex_wake(slot, INT32_MAX) and cond_.notify_all(): every thread blocked
\* on slot s goes on to read the slot again.
RWoken(s) ==
    [u \in RThreads |->
        IF u \in r_parked[s] THEN [r_th[u] EXCEPT !.pc = "reload"] ELSE r_th[u]]

\* The thread blocks on slot s.
RPark(t, s) ==
    /\ r_parked' = [r_parked EXCEPT ![s] = @ \cup {t}]
    /\ r_th' = [r_th EXCEPT ![t].pc = "parked"]

\* wait_push, line 379, and wait_pop, line 398: the call returns success.
RReturnSuccess(t, th) ==
    /\ r_th' = [th EXCEPT ![t] = RIdle("success")]
    /\ r_pushed' = IF t \in RProd THEN r_pushed \cup {r_th[t].val} ELSE r_pushed
    /\ r_deliv' = IF t \in RCons THEN r_deliv \cup {<<r_th[t].val, r_th[t].count>>}
                  ELSE r_deliv

\* close(), lines 286-289: the loop over the slots goes on, or ends.
RCloseNext(k, th) ==
    r_th' = [th EXCEPT ![k] = IF r_th[k].i + 1 = RingSize THEN RStopped("closed")
                              ELSE [r_th[k] EXCEPT !.pc = "slots", !.i = @ + 1]]

\* A call that is about to add to tail_: wait_push (line 355) adds 1,
\* close() (line 280) adds the size of the ring.
RTailCall(t) ==
    \/ /\ t \in RProd /\ RActive(t) /\ r_th[t].pc = "idle" /\ r_prod[t].left > 0
       /\ r_env = "bench" => r_closes = 0
    \/ t \in RClosers /\ r_th[t].pc = "add"

RAddend(t) == IF t \in RProd THEN 1 ELSE RingSize

\* wait_push, lines 355-358, and close(), line 280, with the old tail_.
RTailTaken(t, count) ==
    IF t \in RProd
    THEN [r_th[t] EXCEPT !.pc = "load", !.count = count, !.loop = "tail",
                         !.val = <<t, r_prod[t].next>>]
    ELSE [r_th[t] EXCEPT !.pc = "last", !.count = count]

\* A call of close() has run to its end (line 290).
RCloseCompleted == \E k \in RClosers : r_th[k].pc = "done" /\ r_th[k].st = "closed"

\* A call of wait_push begins.
RPushBegins(t) ==
    /\ r_prod' = IF t \in RProd
                 THEN [r_prod EXCEPT ![t] = [left |-> @.left - 1, next |-> @.next + 1,
                                            after |-> RCloseCompleted]]
                 ELSE r_prod
    /\ r_late' = (r_late \/ (t \in RProd /\ r_closes > 0))

\* atomic_counter::fetch_add on tail_, lines 108-111.
RTailAdd(t) ==
    /\ RTailCall(t)
    /\ ~RSingleProd
    /\ r_tail' = (r_tail + RAddend(t)) % RMod
    /\ r_th' = [r_th EXCEPT ![t] = RTailTaken(t, r_tail)]
    /\ RPushBegins(t)
    /\ r_applied' = IF t \in RClosers THEN r_applied + 1 ELSE r_applied
    /\ UNCHANGED <<r_head, r_closed, r_last, r_word, r_cell, r_parked,
                   r_pushed, r_deliv, r_closes>>
    /\ RKeepKind

\* counter::fetch_add on tail_, line 94: count = count_
RTailRead(t) ==
    /\ RTailCall(t)
    /\ RSingleProd
    /\ r_th' = [r_th EXCEPT ![t] = [RTailTaken(t, r_tail) EXCEPT !.pc = "tailw"]]
    /\ RPushBegins(t)
    /\ UNCHANGED <<r_head, r_tail, r_closed, r_last, r_word, r_cell, r_parked,
                   r_pushed, r_deliv, r_closes, r_applied>>
    /\ RKeepKind

\* counter::fetch_add on tail_, line 95: count_ += addend.  The counter is
\* not atomic: when another thread has written it since line 94, the sum is
\* taken of either value.
RTailWrite(t) ==
    /\ r_th[t].pc = "tailw"
    /\ \E old \in {r_th[t].count, r_tail} :
          r_tail' = (old + RAddend(t)) % RMod
    /\ r_th' = [r_th EXCEPT ![t].pc = IF t \in RProd THEN "load" ELSE "last"]
    /\ r_applied' = IF t \in RClosers THEN r_applied + 1 ELSE r_applied
    /\ UNCHANGED <<r_head, r_closed, r_last, r_word, r_cell, r_parked, r_prod,
                   r_pushed, r_deliv, r_closes, r_late>>
    /\ RKeepKind

\* wait_pop, lines 386-389: count = head_.fetch_add(1).  A ring that counts
\* head_ with detail::counter has one consumer, the only thread that
\* touches head_.
RHeadAdd(t) ==
    /\ t \in RCons /\ RActive(t)
    /\ r_th[t].pc \in {"idle", "ticket"}
    /\ r_head' = (r_head + 1) % RMod
    /\ r_th' = [r_th EXCEPT ![t] = [@ EXCEPT !.pc = "load", !.count = r_head,
                                             !.loop = "head1"]]
    /\ UNCHANGED <<r_tail, r_closed, r_last, r_word, r_cell, r_parked, r_prod,
                   r_pushed, r_deliv, r_closes, r_applied, r_late>>
    /\ RKeepKind

\* wait_tail(), line 485, and wait_head(), line 514: t = slot.load()
RLoad(t) ==
    /\ r_th[t].pc = "load"
    /\ r_th' = [r_th EXCEPT ![t] = RLoaded(t, r_word[RSlotOf(r_th[t].count)])]
    /\ UNCHANGED <<r_head, r_tail, r_closed, r_last, r_word, r_cell, r_parked,
                   r_prod, r_pushed, r_deliv, r_closes, r_applied, r_late>>
    /\ RKeepKind

\* A slip in is_past_last(): the comparison is strict.
RIsPastLastStrict(count) ==
    /\ r_closed = CloseClosed
    /\ RSigned((r_last - count + RMod) % RMod) < 0

\* is_past_last(count), lines 476-481.
RIsPastLast(count) ==
    /\ r_closed = CloseClosed
    /\ RSigned((r_last - count + RMod) % RMod) <= 0

\* wait_tail(), lines 487-488, and wait_head(), lines 516-517 and 521-522:
\* the call returns closed when its ticket is past the last one.
RPast(t) ==
    /\ r_th[t].pc = "past"
    /\ r_th' = [r_th EXCEPT ![t] =
                    IF RIsPastLast(r_th[t].count)
                    THEN (IF t \in RProd THEN RIdle("closed") ELSE RStopped("closed"))
                    ELSE [@ EXCEPT !.pc = "wait"]]
    /\ UNCHANGED <<r_head, r_tail, r_closed, r_last, r_word, r_cell, r_parked,
                   r_prod, r_pushed, r_deliv, r_closes, r_applied, r_late>>
    /\ RKeepKind

\* spin::wait, lines 137-140, and yield::wait, lines 151-155.
RWaitSpin(t) ==
    /\ r_th[t].pc = "wait"
    /\ r_slot \in {"spin", "yield"}
    /\ r_th' = [r_th EXCEPT ![t] = RLoaded(t, r_word[RSlotOf(r_th[t].count)])]
    /\ UNCHANGED <<r_head, r_tail, r_closed, r_last, r_word, r_cell, r_parked,
                   r_prod, r_pushed, r_deliv, r_closes, r_applied, r_late>>
    /\ RKeepKind

\* futex::wait, lines 172-176: the compare_exchange_strong of t with
\* t | status_waiting, and the test t == x after it failed.
RWaitFutexCas(t) ==
    LET s == RSlotOf(r_th[t].count)
        x == RWith(r_th[t].t, StatusWaiting)
    IN  /\ r_th[t].pc = "wait"
        /\ r_slot = "futex"
        /\ IF r_word[s] = r_th[t].t
           THEN /\ r_word' = [r_word EXCEPT ![s] = x]
                /\ r_th' = [r_th EXCEPT ![t].pc = "futex"]
           ELSE /\ UNCHANGED r_word
                /\ r_th' = [r_th EXCEPT ![t] =
                                IF r_word[s] = x
                                THEN [@ EXCEPT !.t = x, !.pc = "futex"]
                                ELSE RLoaded(t, r_word[s])]
        /\ UNCHANGED <<r_head, r_tail, r_closed, r_last, r_cell, r_parked,
                       r_prod, r_pushed, r_deliv, r_closes, r_applied, r_late>>
        /\ RKeepKind

\* futex::wait, line 177: futex_wait(*this, x) blocks while the slot holds x.
RFutexWait(t) ==
    LET s == RSlotOf(r_th[t].count) IN
    /\ r_th[t].pc = "futex"
    /\ IF r_word[s] = RWith(r_th[t].t, StatusWaiting)
       THEN RPark(t, s)
       ELSE r_th' = [r_th EXCEPT ![t].pc = "reload"] /\ UNCHANGED r_parked
    /\ UNCHANGED <<r_head, r_tail, r_closed, r_last, r_word, r_cell,
                   r_prod, r_pushed, r_deliv, r_closes, r_applied, r_late>>
    /\ RKeepKind

\* synch::wait, lines 212-216, under the slot's lock: the thread waits on
\* the condition variable when the slot still holds t.
RWaitSynch(t) ==
    LET s == RSlotOf(r_th[t].count) IN
    /\ r_th[t].pc = "wait"
    /\ r_slot = "synch"
    /\ IF r_word[s] = r_th[t].t
       THEN RPark(t, s)
       ELSE /\ r_th' = [r_th EXCEPT ![t] = RLoaded(t, r_word[s])]
            /\ UNCHANGED r_parked
    /\ UNCHANGED <<r_head, r_tail, r_closed, r_last, r_word, r_cell,
                   r_prod, r_pushed, r_deliv, r_closes, r_applied, r_late>>
    /\ RKeepKind

\* futex::wait, line 178, and synch::wait, line 217: the slot is read again
\* after the thread was woken.
RReload(t) ==
    /\ r_th[t].pc = "reload"
    /\ r_th' = [r_th EXCEPT ![t] = RLoaded(t, r_word[RSlotOf(r_th[t].count)])]
    /\ UNCHANGED <<r_head, r_tail, r_closed, r_last, r_word, r_cell, r_parked,
                   r_prod, r_pushed, r_deliv, r_closes, r_applied, r_late>>
    /\ RKeepKind

\* put_value(), lines 565 and 585: slot.value = value
RWrite(t) ==
    /\ r_th[t].pc = "write"
    /\ r_cell' = [r_cell EXCEPT ![RSlotOf(r_th[t].count)] = r_th[t].val]
    /\ r_th' = [r_th EXCEPT ![t].pc = "wake"]
    /\ UNCHANGED <<r_head, r_tail, r_closed, r_last, r_word, r_parked,
                   r_prod, r_pushed, r_deliv, r_closes, r_applied, r_late>>
    /\ RKeepKind

\* get_value(), line 612: value = std::move(slot.value)
RRead(t) ==
    /\ r_th[t].pc = "read"
    /\ r_cell' = [r_cell EXCEPT ![RSlotOf(r_th[t].count)] = NoValue]
    /\ r_th' = [r_th EXCEPT ![t] = [@ EXCEPT !.pc = "wake",
                                             !.val = r_cell[RSlotOf(r_th[t].count)]]]
    /\ UNCHANGED <<r_head, r_tail, r_closed, r_last, r_word, r_parked,
                   r_prod, r_pushed, r_deliv, r_closes, r_applied, r_late>>
    /\ RKeepKind

\* A slip in put_value(): the producer hands the slot to the next lap.
RTokenAfterPushNextLap(count) == (RTicketOf(count) + RingSize) % RMod

\* The token a producer leaves in its slot (put_value, lines 566 and 586).
RTokenAfterPush(count) == RTicketOf(count) + StatusValid

\* The token a consumer leaves in its slot (get_value, line 613):
\* token + mask_ + 1.
RTokenAfterPop(count) == (RTicketOf(count) + RingSize) % RMod

\* A slip in futex::wake and futex::close: the old word is never taken to
\* have waiters.
RHadWaitersNever(old) == FALSE

\* futex::wake, line 185, and futex::close, line 168:
\* (t & status_waiting) != 0 for the word t that was replaced.
RHadWaiters(old) == RHas(old, StatusWaiting)

\* slot.wake(t) of put_value() and get_value(): spin::wake (lines 142-145)
\* stores the token; futex::wake (lines 182-187) exchanges it and wakes the
\* slot's waiters when the old token had status_waiting; synch::wake (lines
\* 221-226) stores it and notifies all under the slot's lock.
RWake(t) ==
    LET s == RSlotOf(r_th[t].count)
        new == IF t \in RProd THEN RTokenAfterPush(r_th[t].count)
               ELSE RTokenAfterPop(r_th[t].count)
    IN  /\ r_th[t].pc = "wake"
        /\ r_word' = [r_word EXCEPT ![s] = new]
        /\ IF r_slot = "futex" /\ RHadWaiters(r_word[s])
           THEN /\ r_th' = [r_th EXCEPT ![t].pc = "fwake"]
                /\ UNCHANGED <<r_parked, r_pushed, r_deliv>>
           ELSE IF r_slot = "synch"
           THEN /\ RReturnSuccess(t, RWoken(s))
                /\ r_parked' = [r_parked EXCEPT ![s] = {}]
           ELSE /\ RReturnSuccess(t, r_th)
                /\ UNCHANGED r_parked
        /\ UNCHANGED <<r_head, r_tail, r_closed, r_last, r_cell,
                       r_prod, r_closes, r_applied, r_late>>
        /\ RKeepKind

\* futex::wake, line 186, and futex::close, line 169:
\* futex_wake(*this, INT32_MAX)
RFutexWake(t) ==
    LET s == IF t \in RClosers THEN RSlotOf(r_last + r_th[t].i)
             ELSE RSlotOf(r_th[t].count)
    IN  /\ r_th[t].pc = "fwake"
        /\ r_parked' = [r_parked EXCEPT ![s] = {}]
        /\ IF t \in RClosers
           THEN RCloseNext(t, RWoken(s)) /\ UNCHANGED <<r_pushed, r_deliv>>
           ELSE RReturnSuccess(t, RWoken(s))
        /\ UNCHANGED <<r_head, r_tail, r_closed, r_last, r_word, r_cell,
                       r_prod, r_closes, r_applied, r_late>>
        /\ RKeepKind

\* close(), lines 274-277: flag = closing; the call returns when
\* closed_.compare_exchange_strong(flag, open) succeeds.
RCloseReturns == r_closed = CloseClosing

\* close(), lines 269-277.
RCloseCas(k) ==
    /\ k \in RClosers
    /\ r_th[k].pc = "idle"
    /\ r_env = "bench" => \A p \in RProd : r_th[p].pc = "idle"
    /\ r_closes' = r_closes + 1
    /\ r_late' = (r_late \/ \E p \in RProd : r_th[p].pc # "idle")
    /\ IF RCloseReturns
       THEN /\ r_closed' = CloseOpen
            /\ r_th' = [r_th EXCEPT ![k] = RStopped("closed")]
       ELSE /\ UNCHANGED r_closed
            /\ r_th' = [r_th EXCEPT ![k].pc = "add"]
    /\ UNCHANGED <<r_head, r_tail, r_last, r_word, r_cell, r_parked, r_prod,
                   r_pushed, r_deliv, r_applied>>
    /\ RKeepKind

\* close(), line 280: last_ = (the old tail_)
RCloseLast(k) ==
    /\ r_th[k].pc = "last"
    /\ r_last' = r_th[k].count
    /\ r_th' = [r_th EXCEPT ![k].pc = "store"]
    /\ UNCHANGED <<r_head, r_tail, r_closed, r_word, r_cell, r_parked, r_prod,
                   r_pushed, r_deliv, r_closes, r_applied, r_late>>
    /\ RKeepKind

\* close(), line 283: closed_.store(closed)
RCloseStore(k) ==
    /\ r_th[k].pc = "store"
    /\ r_closed' = CloseClosed
    /\ r_th' = [r_th EXCEPT ![k] = [@ EXCEPT !.pc = "slots", !.i = 0, !.count = 0]]
    /\ UNCHANGED <<r_head, r_tail, r_last, r_word, r_cell, r_parked, r_prod,
                   r_pushed, r_deliv, r_closes, r_applied, r_late>>
    /\ RKeepKind

\* close(), lines 286-289: slot.close() of ring_[(last_ + i) & mask_].
\* spin::close (lines 128-130) does nothing, so that the whole loop is one
\* step; futex::close (lines 161-170) sets status_closed and wakes the
\* waiters when the token had status_waiting; synch::close (lines 201-208)
\* sets status_closed and notifies all under the slot's lock.
RCloseSlot(k) ==
    LET s == RSlotOf(r_last + r_th[k].i) IN
    /\ r_th[k].pc = "slots"
    /\ IF r_slot \in {"spin", "yield"}
       THEN /\ r_th' = [r_th EXCEPT ![k] = RStopped("closed")]
            /\ UNCHANGED <<r_word, r_parked>>
       ELSE /\ r_word' = [r_word EXCEPT ![s] = RWith(@, StatusClosed)]
            /\ IF r_slot = "synch"
               THEN /\ RCloseNext(k, RWoken(s))
                    /\ r_parked' = [r_parked EXCEPT ![s] = {}]
               ELSE /\ UNCHANGED r_parked
                    /\ IF RHadWaiters(r_word[s])
                       THEN r_th' = [r_th EXCEPT ![k].pc = "fwake"]
                       ELSE RCloseNext(k, r_th)
    /\ UNCHANGED <<r_head, r_tail, r_closed, r_last, r_cell, r_prod,
                   r_pushed, r_deliv, r_closes, r_applied, r_late>>
    /\ RKeepKind

RStep(t) ==
    \/ RTailAdd(t)
    \/ RTailRead(t)
    \/ RTailWrite(t)
    \/ RHeadAdd(t)
    \/ RLoad(t)
    \/ RPast(t)
    \/ RWaitSpin(t)
    \/ RWaitFutexCas(t)
    \/ RFutexWait(t)
    \/ RWaitSynch(t)
    \/ RReload(t)
    \/ RWrite(t)
    \/ RRead(t)
    \/ RWake(t)
    \/ RFutexWake(t)
    \/ RCloseCas(t)
    \/ RCloseLast(t)
    \/ RCloseStore(t)
    \/ RCloseSlot(t)

\* The steps of the threads of a ring with futex slots whose producers and
\* consumers share atomic counters.
RFutexStep(t) ==
    \/ RTailAdd(t)
    \/ RHeadAdd(t)
    \/ RLoad(t)
    \/ RPast(t)
    \/ RWaitFutexCas(t)
    \/ RFutexWait(t)
    \/ RReload(t)
    \/ RWrite(t)
    \/ RRead(t)
    \/ RWake(t)
    \/ RFutexWake(t)
    \/ RCloseCas(t)
    \/ RCloseLast(t)
    \/ RCloseStore(t)
    \/ RCloseSlot(t)

\* The steps of the threads of a ring with spin slots that is never closed.
RSpinStep(t) ==
    \/ RTailAdd(t)
    \/ RHeadAdd(t)
    \/ RLoad(t)
    \/ RPast(t)
    \/ RWaitSpin(t)
    \/ RWrite(t)
    \/ RRead(t)
    \/ RWake(t)

\* put_value(), lines 572-573 and 594-595, for a value type whose
\* assignment may throw: slot.value = value throws.
RWriteThrows(t) ==
    /\ r_th[t].pc = "write"
    /\ Cardinality({sl \in RSlots : RHas(r_word[sl], StatusInvalid)})
         + Cardinality({p \in RProd : r_th[p].pc = "wakeinv"}) < RingThrows
    /\ r_th' = [r_th EXCEPT ![t].pc = "wakeinv"]
    /\ UNCHANGED <<r_head, r_tail, r_closed, r_last, r_word, r_cell, r_parked,
                   r_prod, r_pushed, r_deliv, r_closes, r_applied, r_late>>
    /\ RKeepKind

\* The token a producer leaves in its slot when the assignment threw
\* (put_value, lines 576 and 598): token | status_invalid.
RTokenAfterThrow(count) == RTicketOf(count) + StatusInvalid

\* put_value(), lines 575-577 and 597-599, with spin slots: the handler
\* stores token | status_invalid (spin::wake) and throws again; the call of
\* wait_push ends with the exception and the value is not in the ring.
RWakeInvalid(t) ==
    /\ r_th[t].pc = "wakeinv"
    /\ r_slot \in {"spin", "yield"}
    /\ r_word' = [r_word EXCEPT ![RSlotOf(r_th[t].count)] =
                      RTokenAfterThrow(r_th[t].count)]
    /\ r_th' = [r_th EXCEPT ![t] = RIdle("thrown")]
    /\ UNCHANGED <<r_head, r_tail, r_closed, r_last, r_cell, r_parked,
                   r_prod, r_pushed, r_deliv, r_closes, r_applied, r_late>>
    /\ RKeepKind

RObsKeep ==
    /\ UNCHANGED <<r_ring, r_slot, r_env, r_head, r_tail, r_closed, r_last, r_word,
                   r_cell, r_parked, r_th, r_prod, r_pushed, r_deliv, r_closes,
                   r_applied, r_late, r_base>>
    /\ ROthers

\* No call of wait_push, and no call of wait_pop, is in progress.
RNoPush == \A p \in RProd : r_th[p].pc \in {"idle", "done"}
RNoPop == \A c \in RCons : r_th[c].pc \in {"idle", "done"}

\* make_signed_t<count_t>(tail - head)
RDiff(head, tail) == RSigned((tail - head + RMod) % RMod)

\* is_full(), line 308: head = head_.load().  The call is made with no
\* concurrent pop (line 306).
RIsFullHead ==
    /\ r_obs.pc = "idle"
    /\ RNoPop
    /\ r_obs' = [RObsIdle EXCEPT !.pc = "full", !.x = r_head]
    /\ RObsKeep

\* A slip in is_full(): the difference is compared with the size.
RFullOverSize(head, tail) == RDiff(head, tail) > RingSize

\* is_full(), line 310: make_signed_t<count_t>(tail - head) > mask_
RFull(head, tail) == RDiff(head, tail) > RingSize - 1

\* is_full(), lines 309-310: tail = tail_.load(), and the result.  The
\* result of a call during which a wait_pop began is not followed.
RIsFullTail ==
    /\ r_obs.pc = "full"
    /\ r_obs' = IF r_head = r_obs.x /\ RNoPop
                THEN [RObsIdle EXCEPT
                         !.res = IF RFull(r_obs.x, r_tail) THEN "full" ELSE "notfull",
                         !.diff = RDiff(r_obs.x, r_tail)]
                ELSE RObsIdle
    /\ RObsKeep

\* is_empty(), line 300: tail = tail_.load().  The call is made with no
\* concurrent push (line 299).
RIsEmptyTail ==
    /\ r_obs.pc = "idle"
    /\ RNoPush
    /\ r_obs' = [RObsIdle EXCEPT !.pc = "empty", !.x = r_tail,
                                 !.n = Cardinality(r_pushed)]
    /\ RObsKeep

\* A slip in is_empty(): the ring is empty unless it is full.
REmptyBelowSize(head, tail) == RDiff(head, tail) < RingSize

\* is_empty(), line 302: make_signed_t<count_t>(tail - head) <= 0
REmpty(head, tail) == RDiff(head, tail) <= 0

\* is_empty(), lines 301-302: head = head_.load(), and the result.  The
\* result of a call during which a wait_push began is not followed.
RIsEmptyHead ==
    /\ r_obs.pc = "empty"
    /\ r_obs' = IF RNoPush /\ r_tail = r_obs.x /\ Cardinality(r_pushed) = r_obs.n
                THEN [RObsIdle EXCEPT
                         !.res = IF REmpty(r_head, r_obs.x) THEN "empty"
                                 ELSE "nonempty",
                         !.diff = RDiff(r_head, r_obs.x)]
                ELSE RObsIdle
    /\ RObsKeep

(***************************************************************************)
(* task                                                                    *)
(***************************************************************************)

\* Number of task objects and of targets, of invocations of one target, and
\* of nested calls the stack has room for.
TaskObjects == 3
TaskTargets == 2
MaxTaskCalls == 2
TaskStack == 4

\* Length of the longest chain of move constructions from one task.
MaxTaskMoves == 3

\* Number of cells the allocators can hand out.
TaskCells == 1

TKObjects == 1..TaskObjects
TKTargets == 1..TaskTargets
TKCells == 1..TaskCells

\* Allocator instances: the value of allocator_type(), and an instance that
\* does not compare equal to it (a polymorphic_allocator over a resource of
\* its own, as task-test.cc line 152 and thread_pool's alloc_ allow).
TKAllocators == {"default", "other"}

\* What deallocate() does with a cell that another allocator handed out
\* (the behaviour is undefined): the cell is released all the same, or it
\* stays allocated in its own allocator.
TKForeign == {"released", "kept"}

\* task_adapter, lines 226-228: a target larger than memory_ is kept out
\* of line (task_adapter_large), any other in memory_ (task_adapter_small).
\* The last target is the large one.
TKLarge(target) == target = TaskTargets

\* What a call through a null function pointer does: the program is
\* terminated by a signal, or the call has no effect.
TKUndefined == {"segv", "returns"}

\* task() and task(nullptr_t), lines 319-320: invoke_ is invalid_invoke and
\* wrapper_.helper_ is null.
TKEmpty == [invoke |-> "invalid_invoke", helper |-> "null", mem |-> 0]

\* task(Callable &&), lines 322-347: invoke_ and helper_ are those of the
\* target type, and the target is in memory_.
TKOf(target) == [invoke |-> "invoke", helper |-> "helper", mem |-> target]

\* explicit operator bool(), lines 372-375.
TKBool(v) == v.helper # "null"

\* A place with no task object in it.
TKNone == [live |-> FALSE, made |-> "none", v |-> TKEmpty, origin |-> 0, moves |-> 0]

\* A task object just made, by no move.
TKFresh(made, v, origin) ==
    [live |-> TRUE, made |-> made, v |-> v, origin |-> origin, moves |-> 0]

\* A slip in task(task &&): other.invoke_ is left as it was.
TKMovedFromKeepsInvoke(other) == [other EXCEPT !.helper = "null"]

\* task(task &&), lines 357-358: what is left of `other`; the helpers are
\* exchanged, that of the new object being null.
TKMovedFrom(other) == [invoke |-> "invalid_invoke", helper |-> "null", mem |-> 0]

\* A slip in the helper: the new object's memory_ gets another target.
TKMovedToOther(other) ==
    [invoke |-> other.invoke, helper |-> other.helper, mem |-> (other.mem % TaskTargets) + 1]

\* task(task &&), lines 354-357: the new object.  invoke_ is other.invoke_
\* (line 354), helper<Target> moves the target from other.memory_ to
\* memory_ (lines 409-415), and the helpers are exchanged (line 357).
TKMovedTo(other) ==
    [invoke |-> other.invoke, helper |-> other.helper, mem |-> other.mem]

\* task(task &&other), lines 354-359.  other.wrapper_.helper_ is called
\* whatever its value, so with an empty `other` the call goes through a null
\* pointer.
TKMoveCtor(other, ub) ==
    IF other.helper = "null" /\ ub = "segv"
    THEN [status |-> "segv", this |-> TKEmpty, other |-> other]
    ELSE [status |-> "ok", this |-> TKMovedTo(other), other |-> TKMovedFrom(other)]

RECURSIVE TKAssign(_, _, _, _)
RECURSIVE TKSwap(_, _, _, _)

\* operator=(task &&other), lines 361-365: task(std::move(other)).swap(*this).
TKAssign(this, other, depth, ub) ==
    IF depth > TaskStack
    THEN [status |-> "overflow", this |-> this, other |-> other]
    ELSE LET tmp == TKMoveCtor(other, ub) IN
         IF tmp.status # "ok"
         THEN [status |-> tmp.status, this |-> this, other |-> other]
         ELSE LET sw == TKSwap(tmp.this, this, depth, ub) IN
              [status |-> sw.status, this |-> sw.other, other |-> tmp.other]

\* swap(task &other), lines 367-370: std::swap(*this, other), which is
\* T tmp(std::move(a)); a = std::move(b); b = std::move(tmp), the two
\* assignments being operator=(task &&) again.
TKSwap(this, other, depth, ub) ==
    LET tmp == TKMoveCtor(this, ub) IN
    IF tmp.status # "ok"
    THEN [status |-> tmp.status, this |-> this, other |-> other]
    ELSE LET first == TKAssign(tmp.other, other, depth + 1, ub) IN
         IF first.status # "ok"
         THEN [status |-> first.status, this |-> this, other |-> other]
         ELSE LET second == TKAssign(first.other, tmp.this, depth + 1, ub) IN
              [status |-> second.status, this |-> first.this, other |-> second.this]

\* memory_ with no target and no cell, and the allocator base of wrapper_.
TKNoMem(alloc) == [obj |-> FALSE, ptr |-> 0, alloc |-> alloc]

\* A cell no allocator has handed out.
TKFreeCell == [by |-> "none", obj |-> FALSE]

\* An operation that destroys no target and deallocates no cell.
TKNoMemOp == [held |-> FALSE, destroyed |-> "none", cell |-> 0, by |-> "none",
              through |-> "none"]

\* alloc.allocate(sizeof(Target)), line 216: the cell handed out.
TKLeastFree(heap) ==
    CHOOSE c \in TKCells :
        /\ heap[c].by = "none"
        /\ \A d \in TKCells : heap[d].by = "none" => c <= d

\* task(Callable &&, alloc), lines 324 and 341-343: wrapper_ is made from
\* alloc, adapter.allocate() takes a cell for a large target (lines
\* 213-217; nothing for a small one, line 191), and the target is
\* constructed in the cell or in memory_.
TKMemConstruct(mem, i, target, alloc) ==
    IF TKLarge(target)
    THEN LET c == TKLeastFree(mem.heap) IN
         [mem EXCEPT !.at[i] = [obj |-> FALSE, ptr |-> c, alloc |-> alloc],
                     !.heap[c] = [by |-> alloc, obj |-> TRUE],
                     !.last = TKNoMemOp]
    ELSE [mem EXCEPT !.at[i] = [obj |-> TRUE, ptr |-> 0, alloc |-> alloc],
                     !.last = TKNoMemOp]

\* task(task &&other), lines 354-356: wrapper_ is default-constructed (it
\* is not in the initializer list, and lines 387-394 give it no other
\* value), and other's helper moves the target: task_adapter_small::move
\* (lines 183-189) constructs it in memory_ and destroys what is left in
\* other.memory_; task_adapter_large::move (lines 205-211) takes the
\* pointer and leaves a null one.  A null helper that returns does nothing.
TKMemMove(mem, i, j, other) ==
    IF ~TKBool(other)
    THEN [mem EXCEPT !.at[i] = TKNoMem("default"), !.last = TKNoMemOp]
    ELSE IF TKLarge(other.mem)
    THEN [mem EXCEPT !.at[i] = [obj |-> FALSE, ptr |-> mem.at[j].ptr, alloc |-> "default"],
                     !.at[j].ptr = 0,
                     !.last = TKNoMemOp]
    ELSE [mem EXCEPT !.at[i] = [obj |-> mem.at[j].obj, ptr |-> 0, alloc |-> "default"],
                     !.at[j].obj = FALSE,
                     !.last = TKNoMemOp]

\* ~task(), lines 348-352, and helper<Target>(this, nullptr), lines 416-417:
\* with a helper the target is destroyed and adapter.deallocate() is called
\* with wrapper_ as the allocator, which for a large target is
\* alloc.deallocate(*ptrptr, sizeof(Target)) (lines 219-223) and for a small
\* one nothing (line 193).
TKMemDestroy(mem, i, v, foreign) ==
    IF ~TKBool(v)
    THEN [mem EXCEPT !.at[i] = TKNoMem("default"), !.last = TKNoMemOp]
    ELSE IF ~TKLarge(v.mem)
    THEN [mem EXCEPT !.at[i] = TKNoMem("default"),
                     !.last = [TKNoMemOp EXCEPT
                                 !.held = TRUE,
                                 !.destroyed = IF mem.at[i].obj THEN "alive" ELSE "dead"]]
    ELSE LET c == mem.at[i].ptr
             by == IF c = 0 THEN "none" ELSE mem.heap[c].by
             through == mem.at[i].alloc
             after == IF by = through \/ foreign = "released"
                      THEN TKFreeCell
                      ELSE [by |-> by, obj |-> FALSE]
         IN  [mem EXCEPT !.at[i] = TKNoMem("default"),
                         !.heap = IF c = 0 THEN @ ELSE [@ EXCEPT ![c] = after],
                         !.last = [held |-> TRUE,
                                   destroyed |-> IF c # 0 /\ mem.heap[c].obj
                                                 THEN "alive" ELSE "dead",
                                   cell |-> c, by |-> by, through |-> through]]

\* No operation yet.
TKNoOp == [op |-> "none", dst |-> 0, src |-> 0, result |-> "none", fresh |-> FALSE]

TKInit ==
    /\ tk_obj = [i \in TKObjects |-> TKNone]
    /\ tk_calls = [g \in TKTargets |-> 0]
    /\ tk_last = TKNoOp
    /\ tk_crashed = FALSE
    /\ tk_mem = [at |-> [i \in TKObjects |-> TKNoMem("default")],
                 heap |-> [c \in TKCells |-> TKFreeCell],
                 last |-> TKNoMemOp]

\* task() and task(nullptr), lines 319-320.
TKConstruct(i) ==
    /\ ~tk_crashed
    /\ ~tk_obj[i].live
    /\ \E made \in {"default", "nullptr"} :
          /\ tk_obj' = [tk_obj EXCEPT ![i] = TKFresh(made, TKEmpty, 0)]
          /\ tk_last' = [TKNoOp EXCEPT !.op = made, !.dst = i, !.result = "ok"]
    /\ tk_mem' = [tk_mem EXCEPT !.at[i] = TKNoMem("default"), !.last = TKNoMemOp]
    /\ UNCHANGED <<tk_calls, tk_crashed>>
    /\ TKOthers

\* task(Callable &&, alloc), lines 322-347.  A large target needs a cell
\* (allocate() throws when there is none, and no task object is made); a
\* small target never reaches the allocator, so it comes with
\* allocator_type().
TKConstructFrom(i) ==
    /\ ~tk_crashed
    /\ ~tk_obj[i].live
    /\ \E target \in TKTargets, alloc \in TKAllocators :
          /\ TKLarge(target) => \E c \in TKCells : tk_mem.heap[c].by = "none"
          /\ ~TKLarge(target) => alloc = "default"
          /\ tk_obj' = [tk_obj EXCEPT ![i] = TKFresh("callable", TKOf(target), target)]
          /\ tk_mem' = TKMemConstruct(tk_mem, i, target, alloc)
    /\ tk_last' = [TKNoOp EXCEPT !.op = "callable", !.dst = i, !.result = "ok"]
    /\ UNCHANGED <<tk_calls, tk_crashed>>
    /\ TKOthers

\* task(task &&), lines 354-359: object i is made from object j.
TKMoveConstruct(i, j) ==
    /\ ~tk_crashed
    /\ ~tk_obj[i].live
    /\ tk_obj[j].live
    /\ tk_obj[j].moves < MaxTaskMoves
    /\ \E ub \in TKUndefined :
          LET m == TKMoveCtor(tk_obj[j].v, ub) IN
          /\ tk_crashed' = (m.status # "ok")
          /\ tk_last' = [TKNoOp EXCEPT !.op = "move", !.dst = i, !.src = j, !.result = m.status]
          /\ tk_obj' = IF m.status # "ok" THEN tk_obj
                       ELSE [tk_obj EXCEPT
                               ![i] = [live |-> TRUE, made |-> "moved_to", v |-> m.this,
                                       origin |-> tk_obj[j].origin,
                                       moves |-> tk_obj[j].moves + 1],
                               ![j] = TKFresh("moved_from", m.other, 0)]
          /\ tk_mem' = IF m.status # "ok" THEN tk_mem
                       ELSE TKMemMove(tk_mem, i, j, tk_obj[j].v)
    /\ UNCHANGED tk_calls
    /\ TKOthers

\* operator=(task &&), lines 361-365: object i is assigned from object j.
\* The call does not return (the recursion of lines 361-370 ends in a call
\* through a null helper or on the end of the stack), so the memory is what
\* it was when the program is terminated.
TKMoveAssign(i, j) ==
    /\ ~tk_crashed
    /\ i # j
    /\ tk_obj[i].live
    /\ tk_obj[j].live
    /\ \E ub \in TKUndefined :
          LET a == TKAssign(tk_obj[i].v, tk_obj[j].v, 1, ub) IN
          /\ tk_crashed' = (a.status # "ok")
          /\ tk_last' = [op |-> "assign", dst |-> i, src |-> j, result |-> a.status,
                         fresh |-> /\ tk_obj[i].made \in {"default", "nullptr"}
                                   /\ TKBool(tk_obj[j].v)]
          /\ tk_obj' = IF a.status # "ok" THEN tk_obj
                       ELSE [tk_obj EXCEPT
                               ![i] = [live |-> TRUE, made |-> "moved_to", v |-> a.this,
                                       origin |-> tk_obj[j].origin,
                                       moves |-> tk_obj[j].moves + 1],
                               ![j] = TKFresh("moved_from", a.other, 0)]
    /\ UNCHANGED <<tk_calls, tk_mem>>
    /\ TKOthers

\* operator()(), trivial_task lines 286-289: (*invoke_)(&memory_), which is
\* invalid_invoke (lines 397-400) or invoke<Target> (lines 402-407).
TKInvoke(i) ==
    /\ ~tk_crashed
    /\ tk_obj[i].live
    /\ IF tk_obj[i].v.invoke = "invalid_invoke"
       THEN /\ tk_last' = [TKNoOp EXCEPT !.op = "invoke", !.dst = i,
                                         !.result = "bad_function_call"]
            /\ UNCHANGED tk_calls
       ELSE /\ tk_calls[tk_obj[i].v.mem] < MaxTaskCalls
            /\ tk_calls' = [tk_calls EXCEPT ![tk_obj[i].v.mem] = @ + 1]
            /\ tk_last' = [TKNoOp EXCEPT !.op = "invoke", !.dst = i, !.result = "called"]
    /\ tk_mem' = [tk_mem EXCEPT !.last = TKNoMemOp]
    /\ UNCHANGED <<tk_obj, tk_crashed>>
    /\ TKOthers

\* ~task(), lines 348-352.
TKDestroy(i) ==
    /\ ~tk_crashed
    /\ tk_obj[i].live
    /\ tk_obj' = [tk_obj EXCEPT ![i] = TKNone]
    /\ tk_last' = [TKNoOp EXCEPT !.op = "destroy", !.dst = i, !.result = "ok"]
    /\ \E foreign \in TKForeign :
          tk_mem' = TKMemDestroy(tk_mem, i, tk_obj[i].v, foreign)
    /\ UNCHANGED <<tk_calls, tk_crashed>>
    /\ TKOthers

(***************************************************************************)
(* synch_queue                                                             *)
(***************************************************************************)

\* Number of threads that use the queue and of calls one thread makes.
QueueThreads == 3
MaxQueueCalls == 2

QThreads == 1..QueueThreads

\* The operations that end in locked_push() and in locked_pop().  push()
\* (lines 103-109) calls wait_push(), and wait_push() (lines 131-135) does
\* nothing but call try_push() (lines 160-165): "try_push" stands for a call
\* of either.
QPushOps == {"push", "try_push", "nonblocking_push"}
QPopOps == {"wait_pop", "try_pop", "nonblocking_pop"}
QOps == QPushOps \cup QPopOps \cup {"close"}

\* The operations whose guard is built with std::try_to_lock, lines 179-201.
QTryToLockOps == {"nonblocking_push", "nonblocking_pop"}

\* A thread between two calls, with its last call, the status of that call,
\* whether the call threw the status, the value a pop gave it, and the
\* number of calls it has made.
QIdle(op, status, thrown, val, calls) ==
    [pc |-> "idle", op |-> op, val |-> val, status |-> status, thrown |-> thrown,
     calls |-> calls]

\* synch_queue(), lines 49-51.
QInit ==
    /\ q_buf = <<>>
    /\ q_closed = FALSE
    /\ q_lock = 0
    /\ q_cond = {}
    /\ q_th = [t \in QThreads |-> QIdle("none", "none", FALSE, 0, 0)]
    /\ q_in = <<>>
    /\ q_out = <<>>

\* The value of the k-th call of thread t.
QValue(t, k) == 10 * t + k

\* The end of a call: the guard lets go of the lock (lock_guard::~lock_guard)
\* and the status goes to the caller; push() throws it unless it is success
\* (lines 107-108).
QReturn(t, status, val) ==
    QIdle(q_th[t].op, status, q_th[t].op = "push" /\ status # "success", val, q_th[t].calls)

\* A call begins.  The guard of a nonblocking operation tries the lock
\* (lines 181-183, 189-191, 197-199) and the call returns busy when the lock
\* is held; the guard of every other operation will wait for the lock
\* (lines 64, 140, 156, 163, 170).
QCall(t, op) ==
    /\ q_th[t].pc = "idle"
    /\ q_th[t].calls < MaxQueueCalls
    /\ LET call == [pc |-> "lock", op |-> op, val |-> QValue(t, q_th[t].calls + 1),
                    status |-> "none", thrown |-> FALSE, calls |-> q_th[t].calls + 1]
       IN  IF op \in QTryToLockOps
           THEN IF q_lock = 0
                THEN /\ q_lock' = t
                     /\ q_th' = [q_th EXCEPT ![t] = [call EXCEPT !.pc = "locked"]]
                ELSE /\ q_th' = [q_th EXCEPT ![t] = QIdle(op, "busy", FALSE, 0, call.calls)]
                     /\ UNCHANGED q_lock
           ELSE /\ q_th' = [q_th EXCEPT ![t] = call]
                /\ UNCHANGED q_lock
    /\ UNCHANGED <<q_buf, q_closed, q_cond, q_in, q_out>>
    /\ QOthers

\* lock_guard::lock(), and the end of cond_.wait(guard): the thread gets the
\* lock once nobody holds it.
QLock(t) ==
    /\ q_th[t].pc \in {"lock", "relock"}
    /\ q_lock = 0
    /\ q_lock' = t
    /\ q_th' = [q_th EXCEPT ![t].pc = "locked"]
    /\ UNCHANGED <<q_buf, q_closed, q_cond, q_in, q_out>>
    /\ QOthers

\* The threads once the waiters in `woken` have been notified.
QNotified(woken, th) ==
    [t \in QThreads |-> IF t \in woken THEN [th[t] EXCEPT !.pc = "relock"] ELSE th[t]]

\* A slip in locked_push(): closed_ is not tested.
QPushStatusOpen == "success"

\* locked_push(), lines 215-223: the status.
QPushStatus == IF q_closed THEN "closed" ELSE "success"

\* locked_push(), lines 215-223, with the lock held, and the return.
QPush(t) ==
    /\ q_th[t].pc = "locked"
    /\ q_th[t].op \in QPushOps
    /\ q_lock' = 0
    /\ IF QPushStatus = "closed"
       THEN /\ q_th' = [q_th EXCEPT ![t] = QReturn(t, "closed", 0)]
            /\ UNCHANGED <<q_buf, q_cond, q_in>>
       ELSE /\ q_buf' = Append(q_buf, q_th[t].val)
            /\ q_in' = Append(q_in, q_th[t].val)
            /\ IF q_cond = {}
               THEN /\ q_th' = [q_th EXCEPT ![t] = QReturn(t, "success", 0)]
                    /\ UNCHANGED q_cond
               ELSE \E w \in q_cond :
                       /\ q_cond' = q_cond \ {w}
                       /\ q_th' = QNotified({w}, [q_th EXCEPT ![t] = QReturn(t, "success", 0)])
    /\ UNCHANGED <<q_closed, q_out>>
    /\ QOthers

\* locked_pop(), lines 225-236: the status.
QPopStatus ==
    IF q_buf = <<>> THEN (IF q_closed THEN "closed" ELSE "empty") ELSE "success"

\* A slip in locked_pop(): the value is that of queue_.back().
QPopValueBack == q_buf[Len(q_buf)]

\* locked_pop(), line 233: the value is that of queue_.front().
QPopValue == Head(q_buf)

\* A slip in wait_pop(): the status is returned as it is.
QWaitAgainNever(status) == FALSE

\* wait_pop(), line 142: while (status == queue_op_status::empty)
QWaitAgain(status) == status = "empty"

\* locked_pop(), lines 225-236, with the lock held; then wait_pop() waits on
\* the condition variable (line 143), which lets go of the lock, and every
\* other call returns.
QPop(t) ==
    /\ q_th[t].pc = "locked"
    /\ q_th[t].op \in QPopOps
    /\ q_lock' = 0
    /\ IF QPopStatus = "success"
       THEN /\ q_th' = [q_th EXCEPT ![t] = QReturn(t, "success", QPopValue)]
            /\ q_out' = Append(q_out, QPopValue)
            /\ q_buf' = Tail(q_buf)
            /\ UNCHANGED q_cond
       ELSE /\ IF q_th[t].op = "wait_pop" /\ QWaitAgain(QPopStatus)
               THEN /\ q_th' = [q_th EXCEPT ![t].pc = "waiting"]
                    /\ q_cond' = q_cond \cup {t}
               ELSE /\ q_th' = [q_th EXCEPT ![t] = QReturn(t, QPopStatus, 0)]
                    /\ UNCHANGED q_cond
            /\ UNCHANGED <<q_buf, q_out>>
    /\ UNCHANGED <<q_closed, q_in>>
    /\ QOthers

\* close(), lines 62-67.
QClose(t) ==
    /\ q_th[t].pc = "locked"
    /\ q_th[t].op = "close"
    /\ q_closed' = TRUE
    /\ q_cond' = {}
    /\ q_lock' = 0
    /\ q_th' = QNotified(q_cond, [q_th EXCEPT ![t] = QReturn(t, "success", 0)])
    /\ UNCHANGED <<q_buf, q_in, q_out>>
    /\ QOthers

\* cond_.wait(guard), line 143, returns without a notification.
QSpuriousWake(t) ==
    /\ t \in q_cond
    /\ q_cond' = q_cond \ {t}
    /\ q_th' = [q_th EXCEPT ![t].pc = "relock"]
    /\ UNCHANGED <<q_buf, q_closed, q_lock, q_in, q_out>>
    /\ QOthers

QStep(t) ==
    \/ \E op \in QOps : QCall(t, op)
    \/ QLock(t)
    \/ QPush(t)
    \/ QPop(t)
    \/ QClose(t)
    \/ QSpuriousWake(t)

(***************************************************************************)
(* thread_pool over synch_queue                                            *)
(***************************************************************************)

\* thread_pool_base::stop_flag and wait_flag.
StopFlag == 1
WaitFlag == 2

\* Number of worker threads of the pool and of threads that use the pool.
PoolWorkers == 2
PoolClients == 2

\* Number of calls of submit(), and of calls of stop() and wait() by one
\* client.
MaxSubmit == 3
MaxPoolCalls == 2

PWorkers == 1..PoolWorkers
PClients == 1..PoolClients
PTasks == 1..MaxSubmit

\* A client between two calls, with the number of calls of stop() and wait()
\* it has made.  During a call of wait(), `seen` is the set of tasks accepted
\* before the call and `stopped` tells whether stop() was called before it.
PIdle(calls) ==
    [pc |-> "idle", op |-> "none", i |-> 0, seen |-> {}, stopped |-> FALSE, calls |-> calls]

\* thread_pool(size), lines 128-133: the queue is empty and open, and
\* activate() (lines 85-93) has started the workers in work().
PInit ==
    /\ p_flags = 0
    /\ p_queue = <<>>
    /\ p_qclosed = FALSE
    /\ p_qwait = {}
    /\ p_joinlock = 0
    /\ p_joindone = FALSE
    /\ p_w = [w \in PWorkers |-> [pc |-> "check", task |-> 0]]
    /\ p_c = [c \in PClients |-> PIdle(0)]
    /\ p_counter = 0
    /\ p_dtor = "none"
    /\ p_runs = [t \in PTasks |-> 0]
    /\ p_joined = [w \in PWorkers |-> 0]
    /\ p_closes = 0
    /\ p_stops = 0
    /\ p_accepted = {}
    /\ p_refused = {}
    /\ p_atstop = {}
    /\ p_must = {}
    /\ p_waited = 0
    /\ p_early = FALSE

\* The pool is in use: its destructor has not begun, and the program has not
\* been terminated.
\* The program has been terminated from within a worker: by a signal
\* ("crashed"), or by std::terminate ("terminated").
PDead == \E w \in PWorkers : p_w[w].pc \in {"crashed", "terminated"}

PInUse == p_dtor = "none" /\ ~PDead
PAlive == p_dtor # "aborted" /\ ~PDead

PKeepQueue == UNCHANGED <<p_queue, p_qclosed, p_qwait>>
PKeepJoin == UNCHANGED <<p_joinlock, p_joindone, p_joined>>
PKeepTasks == UNCHANGED <<p_counter, p_runs, p_accepted, p_refused>>
PKeepWaits == UNCHANGED <<p_must, p_waited, p_early, p_atstop>>

\* is_stopped(), lines 59-62.
PIsStopped == (p_flags \div StopFlag) % 2 = 1

\* flags_.fetch_or(flag), line 108.
PFlagsWith(flag) == IF (p_flags \div flag) % 2 = 1 THEN p_flags ELSE p_flags + flag

\* work(), line 152: while (!is_stopped())
PWorkCheck(w) ==
    /\ PAlive
    /\ p_w[w].pc = "check"
    /\ p_w' = [p_w EXCEPT ![w].pc = IF PIsStopped THEN "exited" ELSE "pop"]
    /\ UNCHANGED <<p_flags, p_c, p_dtor, p_closes, p_stops>>
    /\ PKeepQueue /\ PKeepJoin /\ PKeepTasks /\ PKeepWaits /\ POthers

\* A slip in locked_pop(): closed_ is tested before the queue.
PPopStatusClosedFirst ==
    IF p_qclosed THEN "closed" ELSE IF p_queue = <<>> THEN "empty" ELSE "success"

\* locked_pop(), synch_queue.h lines 225-236.
PPopStatus ==
    IF p_queue # <<>> THEN "success" ELSE IF p_qclosed THEN "closed" ELSE "empty"

\* work(), lines 155-160, and wait_pop(), synch_queue.h lines 137-147, under
\* the queue's lock: the worker takes the first task, or leaves the loop when
\* the queue is closed, or waits on the condition variable.
PWorkPop(w) ==
    /\ PAlive
    /\ p_w[w].pc = "pop"
    /\ CASE PPopStatus = "success" ->
              /\ p_w' = [p_w EXCEPT ![w] = [pc |-> "run", task |-> Head(p_queue)]]
              /\ p_queue' = Tail(p_queue)
              /\ UNCHANGED p_qwait
         [] PPopStatus = "closed" ->
              /\ p_w' = [p_w EXCEPT ![w].pc = "exited"]
              /\ UNCHANGED <<p_queue, p_qwait>>
         [] OTHER ->
              /\ p_w' = [p_w EXCEPT ![w].pc = "waiting"]
              /\ p_qwait' = p_qwait \cup {w}
              /\ UNCHANGED p_queue
    /\ UNCHANGED <<p_flags, p_qclosed, p_c, p_dtor, p_closes, p_stops>>
    /\ PKeepJoin /\ PKeepTasks /\ PKeepWaits /\ POthers

\* work(), line 162: task(), a task of thread_pool-test.cc, line 16.
PWorkRun(w) ==
    /\ PAlive
    /\ p_w[w].pc = "run"
    /\ p_counter' = p_counter + 1
    /\ p_runs' = [p_runs EXCEPT ![p_w[w].task] = @ + 1]
    /\ p_w' = [p_w EXCEPT ![w] = [pc |-> "check", task |-> 0]]
    /\ UNCHANGED <<p_flags, p_c, p_dtor, p_closes, p_stops, p_accepted, p_refused>>
    /\ PKeepQueue /\ PKeepJoin /\ PKeepWaits /\ POthers

\* locked_pop(), synch_queue.h line 233, in the pool of thread_pool-test.cc:
\* value = std::move(queue_.front()), where value is the empty `task` of
\* work() (line 153) and the front is a task made from a callable.
PTaskAssigned(ub) == TKAssign(TKEmpty, TKOf(1), 1, ub).status = "ok"

\* work(), lines 155-160, and wait_pop() of synch_queue<task_type>: as
\* PWorkPop, with the assignment of the task (synch_queue.h line 233) being
\* that of task.h.  The program is terminated when the assignment does not
\* return; the front of the queue has not been removed then.
PWorkPopTask(w) ==
    \E ub \in TKUndefined :
        IF PPopStatus = "success" /\ ~PTaskAssigned(ub)
        THEN /\ PAlive
             /\ p_w[w].pc = "pop"
             /\ p_w' = [p_w EXCEPT ![w] = [pc |-> "crashed", task |-> Head(p_queue)]]
             /\ UNCHANGED <<p_flags, p_c, p_dtor, p_closes, p_stops>>
             /\ PKeepQueue /\ PKeepJoin /\ PKeepTasks /\ PKeepWaits /\ POthers
        ELSE PWorkPop(w)

\* work(), line 162: task() throws.  work() has no handler (lines 150-164)
\* and neither has the thread's entry (thread.h): the exception leaves the
\* thread function and std::terminate ends the program.
PWorkFault(w) ==
    /\ PAlive
    /\ p_w[w].pc = "run"
    /\ p_w' = [p_w EXCEPT ![w].pc = "terminated"]
    /\ UNCHANGED <<p_flags, p_c, p_dtor, p_closes, p_stops>>
    /\ PKeepQueue /\ PKeepJoin /\ PKeepTasks /\ PKeepWaits /\ POthers

\* cond_.wait(guard), synch_queue.h line 143, returns without a notification.
PSpuriousWake(w) ==
    /\ PAlive
    /\ w \in p_qwait
    /\ p_qwait' = p_qwait \ {w}
    /\ p_w' = [p_w EXCEPT ![w].pc = "pop"]
    /\ UNCHANGED <<p_flags, p_queue, p_qclosed, p_c, p_dtor, p_closes, p_stops>>
    /\ PKeepJoin /\ PKeepTasks /\ PKeepWaits /\ POthers

\* The workers once the waiters in `woken` have been notified.
PNotified(woken) ==
    [w \in PWorkers |-> IF w \in woken THEN [p_w[w] EXCEPT !.pc = "pop"] ELSE p_w[w]]

\* A slip in locked_push(): closed_ is not tested.
PPushStatusOpen == "success"

\* locked_push(), synch_queue.h lines 215-223.
PPushStatus == IF p_qclosed THEN "closed" ELSE "success"

\* The tasks in the queue.
PQueued == {p_queue[i] : i \in 1..Len(p_queue)}

\* submit(), lines 140-144, and push() / locked_push(), synch_queue.h lines
\* 95-109 and 205-223, under the queue's lock: a closed queue refuses the
\* task (push throws), an open one takes it and notifies one waiter.
PSubmit(c) ==
    LET task == Cardinality(p_accepted \cup p_refused) + 1 IN
    /\ PInUse
    /\ p_c[c].pc = "idle"
    /\ task \in PTasks
    /\ IF PPushStatus = "closed"
       THEN /\ p_refused' = p_refused \cup {task}
            /\ UNCHANGED <<p_queue, p_qwait, p_w, p_accepted>>
       ELSE /\ p_queue' = Append(p_queue, task)
            /\ p_accepted' = p_accepted \cup {task}
            /\ UNCHANGED p_refused
            /\ IF p_qwait = {} THEN UNCHANGED <<p_qwait, p_w>>
               ELSE \E w \in p_qwait :
                       /\ p_qwait' = p_qwait \ {w}
                       /\ p_w' = PNotified({w})
    /\ UNCHANGED <<p_flags, p_qclosed, p_c, p_dtor, p_closes, p_stops, p_counter, p_runs>>
    /\ PKeepJoin /\ PKeepWaits /\ POthers

\* A call of wait() returns.
PWaitReturns(c) ==
    /\ p_waited' = p_waited + 1
    /\ p_early' = (p_early \/ \E w \in PWorkers : p_w[w].pc # "exited")
    /\ p_must' = IF p_stops = 0 THEN p_must \cup p_c[c].seen ELSE p_must
    /\ p_c' = [p_c EXCEPT ![c] = PIdle(@.calls)]
    /\ p_dtor' = IF p_c[c].op = "dtor" THEN "ended" ELSE p_dtor
    /\ UNCHANGED p_atstop

\* stop(), lines 64-67, and close(stop_flag), lines 106-110: the call goes
\* on to shutdown() when no flag was set.
PStop(c) ==
    /\ PInUse
    /\ p_c[c].pc = "idle"
    /\ p_c[c].calls < MaxPoolCalls
    /\ p_flags' = PFlagsWith(StopFlag)
    /\ p_stops' = p_stops + 1
    /\ p_c' = [p_c EXCEPT ![c] = IF p_flags = 0
                                 THEN [@ EXCEPT !.pc = "shutdown", !.op = "stop",
                                                !.calls = @ + 1]
                                 ELSE PIdle(@.calls + 1)]
    /\ p_atstop' = IF p_flags = 0 THEN p_atstop ELSE p_atstop \cup PQueued
    /\ UNCHANGED <<p_w, p_dtor, p_closes, p_must, p_waited, p_early>>
    /\ PKeepQueue /\ PKeepJoin /\ PKeepTasks /\ POthers

\* wait(), line 71, and close(wait_flag), lines 106-110.
PWait(c) ==
    /\ \/ PInUse /\ p_c[c].pc = "idle" /\ p_c[c].calls < MaxPoolCalls
       \/ p_c[c].pc = "dtor_wait"
    /\ p_flags' = PFlagsWith(WaitFlag)
    /\ p_c' = [p_c EXCEPT ![c] =
                  [@ EXCEPT !.pc = IF p_flags = 0 THEN "shutdown" ELSE "joinlock",
                            !.op = IF p_c[c].pc = "idle" THEN "wait" ELSE "dtor",
                            !.seen = p_accepted,
                            !.stopped = PIsStopped,
                            !.calls = @ + 1]]
    /\ UNCHANGED <<p_w, p_dtor, p_closes, p_stops>>
    /\ PKeepQueue /\ PKeepJoin /\ PKeepTasks /\ PKeepWaits /\ POthers

\* shutdown(), lines 166-169, and close(), synch_queue.h lines 62-67: the
\* queue is closed and every waiter is notified.
PShutdown(c) ==
    /\ PAlive
    /\ p_c[c].pc = "shutdown"
    /\ p_qclosed' = TRUE
    /\ p_qwait' = {}
    /\ p_w' = PNotified(p_qwait)
    /\ p_closes' = p_closes + 1
    /\ p_c' = [p_c EXCEPT ![c] = IF p_c[c].op = "stop" THEN PIdle(@.calls)
                                 ELSE [@ EXCEPT !.pc = "joinlock"]]
    /\ p_atstop' = IF p_c[c].op = "stop" THEN p_atstop \cup PQueued ELSE p_atstop
    /\ UNCHANGED <<p_flags, p_queue, p_dtor, p_stops, p_must, p_waited, p_early>>
    /\ PKeepJoin /\ PKeepTasks /\ POthers

\* wait(), lines 73-74: the guard takes join_lock_; with join_done_ set the
\* call returns and the guard lets go of the lock.
PJoinLock(c) ==
    /\ PAlive
    /\ p_c[c].pc = "joinlock"
    /\ p_joinlock = 0
    /\ IF p_joindone
       THEN PWaitReturns(c) /\ UNCHANGED p_joinlock
       ELSE /\ p_joinlock' = c
            /\ p_c' = [p_c EXCEPT ![c] = [@ EXCEPT !.pc = "join", !.i = 1]]
            /\ UNCHANGED <<p_dtor, p_must, p_waited, p_early, p_atstop>>
    /\ UNCHANGED <<p_flags, p_w, p_joindone, p_joined, p_closes, p_stops>>
    /\ PKeepQueue /\ PKeepTasks /\ POthers

\* wait(), lines 75-76: pool_[i].join() returns once worker i has left work().
PJoin(c) ==
    /\ PAlive
    /\ p_c[c].pc = "join"
    /\ p_w[p_c[c].i].pc = "exited"
    /\ p_joined' = [p_joined EXCEPT ![p_c[c].i] = @ + 1]
    /\ p_c' = [p_c EXCEPT ![c] = IF p_c[c].i = PoolWorkers
                                 THEN [@ EXCEPT !.pc = "joined", !.i = 0]
                                 ELSE [@ EXCEPT !.i = @ + 1]]
    /\ UNCHANGED <<p_flags, p_w, p_dtor, p_joinlock, p_joindone, p_closes, p_stops>>
    /\ PKeepQueue /\ PKeepTasks /\ PKeepWaits /\ POthers

\* wait(), lines 77-79: join_done_ = true, and the guard lets go of the lock.
PJoinDone(c) ==
    /\ PAlive
    /\ p_c[c].pc = "joined"
    /\ p_joindone' = TRUE
    /\ p_joinlock' = 0
    /\ PWaitReturns(c)
    /\ UNCHANGED <<p_flags, p_w, p_joined, p_closes, p_stops>>
    /\ PKeepQueue /\ PKeepTasks /\ POthers

\* ~thread_pool_base(), lines 43-47, after the members of thread_pool have
\* been destroyed: stop(), that is close(stop_flag).  No other call is in
\* progress, and none begins afterwards.
PDestroy(c) ==
    /\ PInUse
    /\ \A d \in PClients : p_c[d].pc = "idle"
    /\ p_flags' = PFlagsWith(StopFlag)
    /\ p_stops' = p_stops + 1
    /\ p_dtor' = IF p_flags = 0 THEN "stop" ELSE "wait"
    /\ p_c' = [p_c EXCEPT ![c] = [@ EXCEPT !.pc = IF p_flags = 0 THEN "pure" ELSE "dtor_wait",
                                           !.op = "dtor"]]
    /\ UNCHANGED <<p_w, p_closes>>
    /\ PKeepQueue /\ PKeepJoin /\ PKeepTasks /\ PKeepWaits /\ POthers

\* close(stop_flag), line 109, in the destructor of thread_pool_base:
\* shutdown() is pure virtual there (line 83), and the call of it is
\* undefined: it ends the program, or it returns without having closed the
\* queue.
PPureVirtual(c) ==
    /\ p_c[c].pc = "pure"
    /\ \E outcome \in {"aborted", "wait"} :
          /\ p_dtor' = outcome
          /\ p_c' = [p_c EXCEPT ![c].pc = IF outcome = "wait" THEN "dtor_wait" ELSE "done"]
    /\ UNCHANGED <<p_flags, p_w, p_closes, p_stops>>
    /\ PKeepQueue /\ PKeepJoin /\ PKeepTasks /\ PKeepWaits /\ POthers

PWorkerStep(w) ==
    \/ PWorkCheck(w)
    \/ PWorkPop(w)
    \/ PWorkRun(w)
    \/ PSpuriousWake(w)

PClientStep(c) ==
    \/ PSubmit(c)
    \/ PStop(c)
    \/ PWait(c)
    \/ PShutdown(c)
    \/ PJoinLock(c)
    \/ PJoin(c)
    \/ PJoinDone(c)
    \/ PDestroy(c)
    \/ PPureVirtual(c)

\* The ring of the specifications that do not use it.
RInitIdle == RInitWith("mpmc", "spin", "any", 0, 0, [p \in RProd |-> 0])

Init == TLInit /\ FInit /\ RInitIdle /\ PInit /\ TKInit /\ QInit

InitRing == TLInit /\ FInit /\ RInit /\ PInit /\ TKInit /\ QInit

NextFutex == \E t \in FThreads : FStep(t) \/ FSpuriousWake(t)

SpecFutex == Init /\ [][NextFutex]_vars

NextNotify == \E t \in FThreads : FScriptStep(t) \/ FSpuriousWake(t)

\* Every thread that can take a step of its own takes one in the end; a
\* spurious return of futex_wait may never happen.
InitNotify ==
    /\ TLInit
    /\ RInitIdle
    /\ PInit
    /\ TKInit
    /\ QInit
    /\ \E sc \in {HandshakeScript, WaiterNotifierScript, NotifyOneScript} :
          FInitWith("script", sc, FOneLock)

SpecNotify ==
    /\ InitNotify
    /\ [][NextNotify]_vars
    /\ \A t \in FThreads : WF_vars(FScriptStep(t))

NextNotifyAll == \E t \in FThreads : FNotifyAllStep(t) \/ FSpuriousWake(t)

InitNotifyAll ==
    /\ TLInit
    /\ RInitIdle
    /\ PInit
    /\ TKInit
    /\ QInit
    /\ \E sc \in {NotifyAllScript, NotifyAllUnlockedScript, NotifyAllLockerScript} :
          FInitWith("script", sc, FOneLock)

\* The calls of a lock_guard, on a guard in any state.
FGuardStep(t) ==
    \/ FLockStart(t)
    \/ FLockCas(t)
    \/ FLockXchg(t)
    \/ FLockWait(t)
    \/ FTryLock(t)
    \/ FUnlockStart(t)
    \/ FUnlockStoreStep(t)
    \/ FUnlockWakeStep(t)
    \/ FLockOwned(t)
    \/ FTryLockOwned(t)
    \/ FUnlockNotOwned(t)

NextGuard == \E t \in FThreads : FGuardStep(t) \/ FSpuriousWake(t)

InitGuard ==
    /\ TLInit
    /\ RInitIdle
    /\ PInit
    /\ TKInit
    /\ QInit
    /\ \E mutex \in [FThreads -> FLocks] :
          FInitWith("free", [t \in FThreads |-> <<>>], mutex)

SpecGuard == InitGuard /\ [][NextGuard]_vars

\* std::terminate() has been called.
FTerminated == \E t \in FThreads : f_pc[t] = "terminated"

\* Three threads that wait, the last after a notify_all(), each with a guard
\* on any of the locks.
OwnerScript ==
    [t \in FThreads |->
        IF t = 3 THEN <<"lock", "notify_all", "wait", "unlock">> ELSE <<"lock", "wait", "unlock">>]

InitOwner ==
    /\ TLInit
    /\ RInitIdle
    /\ PInit
    /\ TKInit
    /\ QInit
    /\ \E mutex \in [FThreads -> FLocks] : FInitWith("script", OwnerScript, mutex)

SpecOwner == InitOwner /\ [][NextNotifyAll]_vars

\* Every thread that can take a step of its own takes one in the end (so a
\* thread that holds the lock lets go of it); a spurious return of
\* futex_wait may never happen.
SpecNotifyAll ==
    /\ InitNotifyAll
    /\ [][NextNotifyAll]_vars
    /\ \A t \in FThreads : WF_vars(FNotifyAllStep(t))

\* Three threads that take and release the lock, one of them with try_lock
\* first (an unlock() after a failed try_lock is refused by the guard).
LockersScript ==
    [t \in FThreads |->
        IF t = 3 THEN <<"try_lock", "unlock", "lock", "unlock">>
        ELSE <<"lock", "unlock", "lock", "unlock">>]

\* A waiter that takes the lock again inside wait(), a thread that calls
\* notify_all() and then try_lock, and a thread that takes and releases the
\* lock twice.
LockersWaitScript ==
    [t \in FThreads |->
        CASE t = 1 -> <<"lock", "wait", "unlock">>
          [] t = 2 -> <<"lock", "notify_all", "unlock", "try_lock", "unlock">>
          [] OTHER -> <<"lock", "unlock", "lock", "unlock">>]

\* The steps of a thread that runs one of the two scripts above.
FLockersStep(t) ==
    \/ FLockStart(t)
    \/ FLockXchg(t)
    \/ FLockWait(t)
    \/ FTryLock(t)
    \/ FUnlockStart(t)
    \/ FUnlockStoreStep(t)
    \/ FUnlockWakeStep(t)
    \/ FUnlockNotOwned(t)
    \/ CVWaitStart(t)
    \/ CVWaitOwner(t)
    \/ CVWaitLoad(t)
    \/ CVWaitUnlockSub(t)
    \/ CVWaitUnlockStore(t)
    \/ CVWaitUnlockWake(t)
    \/ CVWaitFutex(t)
    \/ CVWaitDec(t)
    \/ CVWaitXchg(t)
    \/ CVWaitLockFutex(t)
    \/ CVNotifyAllStart(t)
    \/ CVNotifyAllLoad(t)
    \/ CVNotifyAllRequeue(t)

NextLockers == \E t \in FThreads : FLockersStep(t) \/ FSpuriousWake(t)

InitLockers ==
    /\ TLInit
    /\ RInitIdle
    /\ PInit
    /\ TKInit
    /\ QInit
    /\ \E sc \in {LockersScript, LockersWaitScript} :
          FInitWith("script", sc, FOneLock)

\* Every thread that can take a step of its own takes one in the end (so a
\* thread that holds the lock lets go of it); a spurious return of
\* futex_wait may never happen.
SpecLockers ==
    /\ InitLockers
    /\ [][NextLockers]_vars
    /\ \A t \in FThreads : WF_vars(FLockersStep(t))

NextTicket ==
    \E t \in TLThreads :
        \/ TLLockTicket(t)
        \/ TLLockSpin(t)
        \/ TLTryLoadHead(t)
        \/ TLTryLoadTail(t)
        \/ TLTryCas(t)
        \/ TLUnlock(t)

SpecTicket == Init /\ [][NextTicket]_vars

NextPool ==
    \/ \E w \in PWorkers : PWorkerStep(w)
    \/ \E c \in PClients : PClientStep(c)

SpecPool == Init /\ [][NextPool]_vars

\* The pool with tasks that may throw.
NextPoolFault ==
    \/ NextPool
    \/ \E w \in PWorkers : PWorkFault(w)

SpecPoolFault == Init /\ [][NextPoolFault]_vars

\* The steps of a call of stop() or wait() after its first.
PCallGoesOn(c) ==
    \/ PShutdown(c)
    \/ PJoinLock(c)
    \/ PJoin(c)
    \/ PJoinDone(c)

\* The pool of thread_pool-test.cc: thread_pool<synch_queue> with its tasks
\* of class task.
PWorkerStepTask(w) ==
    \/ PWorkCheck(w)
    \/ PWorkPopTask(w)

NextPoolTest ==
    \/ \E w \in PWorkers : PWorkerStepTask(w) \/ PSpuriousWake(w)
    \/ \E c \in PClients : PClientStep(c)

\* Every worker that can take a step takes one in the end, and so does
\* every call that has begun; a spurious return of cond_.wait may never
\* happen, and a client need not begin a call.
SpecPoolTest ==
    /\ Init
    /\ [][NextPoolTest]_vars
    /\ \A w \in PWorkers : WF_vars(PWorkerStepTask(w))
    /\ \A c \in PClients : WF_vars(PCallGoesOn(c))

NextTask ==
    \E i \in TKObjects :
        \/ TKConstruct(i)
        \/ TKConstructFrom(i)
        \/ \E j \in TKObjects : TKMoveConstruct(i, j)
        \/ \E j \in TKObjects : TKMoveAssign(i, j)
        \/ TKInvoke(i)
        \/ TKDestroy(i)

SpecTask == Init /\ [][NextTask]_vars

NextQueue == \E t \in QThreads : QStep(t)

SpecQueue == Init /\ [][NextQueue]_vars

NextRing == \E t \in RThreads : RStep(t)

SpecRing == InitRing /\ [][NextRing]_vars

\* A ring with spin slots, its threads, and a thread that calls is_empty()
\* and is_full().
NextRingFill ==
    \/ \E t \in RThreads : RSpinStep(t)
    \/ RIsFullHead
    \/ RIsFullTail
    \/ RIsEmptyTail
    \/ RIsEmptyHead

InitRingFill == TLInit /\ FInit /\ RInitFill /\ PInit /\ TKInit /\ QInit

SpecRingFill == InitRingFill /\ [][NextRingFill]_vars

NextRingLap == \E t \in RThreads : RSpinStep(t)

InitRingLap == TLInit /\ FInit /\ RInitLap /\ PInit /\ TKInit /\ QInit

SpecRingLap == InitRingLap /\ [][NextRingLap]_vars

\* A ring with spin slots whose values may throw when they are assigned.
NextRingThrow ==
    \/ \E t \in RThreads : RSpinStep(t)
    \/ \E t \in RProd : RWriteThrows(t)
    \/ \E t \in RProd : RWakeInvalid(t)

SpecRingThrow == InitRingFill /\ [][NextRingThrow]_vars

InitRingWrap == TLInit /\ FInit /\ RInitWrap /\ PInit /\ TKInit /\ QInit

\* Every thread that can take a step takes one in the end.
SpecRingWrap ==
    /\ InitRingWrap
    /\ [][NextRing]_vars
    /\ \A t \in RThreads : WF_vars(RStep(t))

InitRingBench == TLInit /\ FInit /\ RInitBench /\ PInit /\ TKInit /\ QInit

NextRingFutex == \E t \in RThreads : RFutexStep(t)

InitRingFutex == TLInit /\ FInit /\ RInitFutex /\ PInit /\ TKInit /\ QInit

\* Every thread that can take a step takes one in the end.
SpecRingFutex ==
    /\ InitRingFutex
    /\ [][NextRingFutex]_vars
    /\ \A t \in RThreads : WF_vars(RFutexStep(t))

\* Every thread that can take a step takes one in the end.
SpecRingBench ==
    /\ InitRingBench
    /\ [][NextRing]_vars
    /\ \A t \in RThreads : WF_vars(RStep(t))

(***************************************************************************)
(* Properties of ticket_lock                                               *)
(***************************************************************************)

TLInCS == {t \in TLThreads : tl_pc[t] = "cs"}

\* Threads that hold the lock or wait for it.
TLHoldOrWait == {t \in TLThreads : tl_pc[t] \in {"cs", "spin"}}

FHolders == {t \in FThreads : f_holds[t]}

\* C1: at most one thread is between a successful return of lock(),
\* lock(backoff), try_lock() or futex_cond_var::wait() and its own unlock().
C1_FutexMutex == Cardinality(FHolders) <= 1

\* The lock is held by a thread that came back from wait() while another
\* thread is parked on the lock word and a third is in lock(backoff).
C1_Witness ==
    \E a, b, c \in FThreads :
        /\ f_holds[a] /\ f_how[a] = "wait"
        /\ f_pc[b] = "lk_parked"
        /\ f_pc[c] \in {"lk_cas", "lk_xchg", "lk_wait"}

\* A notify_one() that was called by the holder of the lock while w was the
\* only waiter is complete, and w has not come back from wait() since.
FNotified(w) == w \in f_notified

\* w can no longer come back from futex_wait on the change counter unless
\* it is woken: it is parked, or it is about to park on an unchanged word.
FStillWaiting(w) ==
    \/ f_pc[w] = "cv_parked"
    \/ f_pc[w] \in {"cvu_store", "cvu_wake", "cv_wait"} /\ f_value[w] = cv_futex

FReturnedFromWait(w) == f_holds[w] /\ f_how[w] = "wait"

HandshakeDone == \A t \in FThreads : FFinished(t)

C7_NotifyNotLost ==
    /\ [](\A w \in FThreads : FNotified(w) => ~FStillWaiting(w))
    /\ \A w \in FThreads : FNotified(w) ~> FReturnedFromWait(w)

C5_TicketMutex ==
    Cardinality(TLHoldOrWait) < TicketMod =>
        /\ Cardinality(TLInCS) <= 1
        /\ \A t \in TLInCS : tl_ticket[t] = tl_head

\* C6: a thread that took its ticket in lock() is never still waiting while
\* a thread with a later ticket (no wrap of the counter between the two) is
\* in its critical section.
C6_TicketFifo ==
    \A a, b \in TLThreads :
        (/\ tl_pc[a] = "spin"
         /\ tl_pc[b] = "cs"
         /\ tl_seq[a] < tl_seq[b]
         /\ tl_seq[b] - tl_seq[a] < TicketMod)
        => tl_via[b] = "try_lock"

C6_Witness ==
    \E a, b \in TLThreads :
        /\ tl_pc[a] = "cs" /\ tl_via[a] = "lock"
        /\ tl_pc[b] = "spin"
        /\ tl_seq[a] > 0
        /\ tl_seq[a] < tl_seq[b]

(***************************************************************************)
(* Properties of the ring                                                  *)
(***************************************************************************)

\* No call is in progress, and every consumer has got CLOSED.
RQuiescent ==
    /\ \A t \in RProd \cup RClosers : r_th[t].pc \in {"idle", "done"}
    /\ \A t \in RCons : RActive(t) => r_th[t].pc = "done"

\* The values delivered so far.
RDelivered == {d[1] : d \in r_deliv}

\* The values of the calls of wait_push that returned success or that are
\* still in progress.
RPushedOrInFlight ==
    r_pushed \cup {r_th[p].val : p \in {q \in RProd : r_th[q].pc # "idle"}}

\* close() was called once, after the last push had returned.
RClosedOnceAfterPushes == r_closes = 1 /\ ~r_late

\* C2: when close() is called once after the last push has returned, every
\* delivered value was pushed, no value is delivered twice, and once the
\* consumers have all got CLOSED the delivered values are the pushed ones.
C2_NoLossNoDup ==
    RClosedOnceAfterPushes =>
        /\ RDelivered \subseteq RPushedOrInFlight
        /\ \A d, e \in r_deliv : d[1] = e[1] => d = e
        /\ RQuiescent => RDelivered = r_pushed

\* Two producers and two consumers of an MPMC ring are done, close() was
\* called once after the last push, and three values went through the ring.
C2_Witness ==
    /\ RClosedOnceAfterPushes
    /\ RQuiescent
    /\ r_ring = "mpmc"
    /\ Cardinality(r_deliv) >= 3
    /\ RDelivered = r_pushed

\* C8: of two delivered values of one producer, the one pushed first went
\* to the smaller consumer ticket.
C8_ProducerOrder ==
    \A d, e \in r_deliv :
        (d[1][1] = e[1][1] /\ d[1][2] < e[1][2]) => RSigned((e[2] - d[2] + RMod) % RMod) > 0

\* Both values of producer 1 were delivered with a value of producer 2
\* between them, in an MPMC ring.
C8_Witness ==
    /\ r_ring = "mpmc"
    /\ \E d, e, f \in r_deliv :
          /\ d[1][1] = 1 /\ e[1][1] = 1 /\ f[1][1] = 2
          /\ d[1][2] < e[1][2]
          /\ d[2] < f[2] /\ f[2] < e[2]

\* C9: of any number of calls of close(), one moves tail_ forward and
\* records last_.
C9_CloseOnce == r_applied <= 1

RConsumersDone == \A t \in RCons : RActive(t) => r_th[t].pc = "done"

\* C3: after close() is called once, after the last push has returned,
\* every consumer gets CLOSED in the end, and no call of wait_pop with a
\* ticket at or past last_ delivers a value.
C3_PopReturnsClosed ==
    /\ (r_closes > 0) ~> RConsumersDone
    /\ [](r_closed = CloseClosed =>
             \A d \in r_deliv : RSigned((r_last - d[2] + RMod) % RMod) > 0)

\* A consumer that was blocked on a futex slot when close() was called has
\* got CLOSED, and so have all consumers, after a value went through.
C3_Witness ==
    /\ r_slot = "futex"
    /\ r_closes = 1
    /\ RConsumersDone
    /\ r_deliv # {}

(***************************************************************************)
(* Properties of the thread pool                                           *)
(***************************************************************************)

\* C4: with no call of stop(), every task accepted before a call of wait()
\* has been invoked once when that call returns, no task is ever invoked
\* twice, and when all the accepted tasks were accepted before the call the
\* counter equals their number.
C4_TasksRunOnce ==
    /\ \A t \in p_must : p_runs[t] = 1
    /\ \A t \in PTasks : p_runs[t] <= 1
    /\ p_must = p_accepted /\ p_must # {} => p_counter = Cardinality(p_accepted)

\* A call of wait() has returned with no call of stop(), after all the
\* submissions, and the counter equals their number.
C4_Witness ==
    /\ p_waited > 0
    /\ p_stops = 0
    /\ Cardinality(p_must) = MaxSubmit
    /\ p_counter = MaxSubmit

\* No call on the pool is in progress.
PSettled == \A c \in PClients : p_c[c].pc \in {"idle", "done"}

\* C10: the queue is never closed twice and no worker is joined twice; a
\* call of wait() returns after all workers have exited and been joined;
\* once the calls of stop() and wait() are over the queue has been closed;
\* and once the destructor is over every worker has been joined.
C10_WaitIdempotent ==
    /\ p_closes <= 1
    /\ \A w \in PWorkers : p_joined[w] <= 1
    /\ ~p_early
    /\ p_waited > 0 => \A w \in PWorkers : p_joined[w] = 1
    /\ PSettled /\ p_flags # 0 => p_closes = 1
    /\ p_dtor \in {"ended", "aborted"} => \A w \in PWorkers : p_joined[w] = 1

\* The tasks the workers have taken from the queue and not finished.
PHeld == {p_w[w].task : w \in PWorkers} \ {0}

\* C11: a submit() on a closed queue is refused: the task is not appended
\* and not accepted; a refused task is never in the queue, never with a
\* worker and never invoked.
C11_SubmitAfterClose ==
    /\ [](\A t \in p_refused : p_runs[t] = 0 /\ t \notin PQueued /\ t \notin PHeld)
    /\ [][\A c \in PClients :
             PSubmit(c) /\ p_qclosed =>
                 /\ p_queue' = p_queue
                 /\ p_accepted' = p_accepted
                 /\ p_refused' # p_refused]_vars

\* A submit() was refused after an earlier one had been accepted and its
\* task invoked.
C11_Witness ==
    /\ p_qclosed
    /\ p_refused # {}
    /\ \E t \in p_accepted : p_runs[t] = 1

PWaiting(c) == p_c[c].op = "wait" /\ p_c[c].pc # "idle"

\* C13: a call of wait() made once stop() has been called returns, with all
\* workers exited and joined; and no task is invoked twice, so that the
\* counter never exceeds the number of accepted tasks.
C13_StopThenWait ==
    /\ \A c \in PClients :
          (PWaiting(c) /\ p_c[c].stopped) ~>
              (~PWaiting(c) /\ \A w \in PWorkers : p_w[w].pc = "exited" /\ p_joined[w] = 1)
    /\ [](\A t \in PTasks : p_runs[t] <= 1)
    /\ [](p_counter <= Cardinality(p_accepted))

C4_TestCounts ==
    /\ [](C4_TasksRunOnce)
    /\ \A c \in PClients : (PWaiting(c) /\ p_stops = 0) ~> ~PWaiting(c)

(***************************************************************************)
(* Properties of synch_queue                                               *)
(***************************************************************************)

\* C15: the values are removed in the order in which they were appended:
\* the values appended so far are the values removed so far, in the same
\* order, followed by the values in the queue.
C15_Fifo == q_in = q_out \o q_buf

\* Values appended by two threads have all been removed.
C15_Witness ==
    /\ q_buf = <<>>
    /\ Len(q_out) >= 3
    /\ \E i, j \in 1..Len(q_out) : q_out[i] \div 10 # q_out[j] \div 10

\* Thread t leaves the body of a push operation, or of wait_pop(), in this
\* step.
QPushReturns(t) ==
    q_th[t].pc = "locked" /\ q_th[t].op \in QPushOps /\ q_th'[t].pc = "idle"
QWaitPopReturns(t) ==
    q_th[t].pc = "locked" /\ q_th[t].op = "wait_pop" /\ q_th'[t].pc = "idle"

\* C16: a push of any kind that gets the lock of a closed queue returns
\* closed (push() throws it), appends nothing and notifies nobody; and
\* closed_, once set, stays set.
C16_PushAfterClose ==
    /\ [][q_closed => q_closed']_vars
    /\ [][\A t \in QThreads :
             QPushReturns(t) /\ q_closed =>
                 /\ q_th'[t].status = "closed"
                 /\ q_th'[t].thrown = (q_th[t].op = "push")
                 /\ q_buf' = q_buf
                 /\ q_cond' = q_cond
                 /\ \A u \in QThreads \ {t} : q_th'[u] = q_th[u]]_vars

\* On the closed queue, with a value still in it, push() has thrown closed
\* and try_push() has returned closed.
C16_Witness ==
    /\ q_closed
    /\ q_buf # <<>>
    /\ \E t, u \in QThreads :
          /\ q_th[t].pc = "idle" /\ q_th[t].op = "push" /\ q_th[t].thrown
          /\ q_th[u].pc = "idle" /\ q_th[u].op = "try_push" /\ q_th[u].status = "closed"

\* C17: wait_pop() returns success or closed; success when, and only when,
\* it removed the front value, which it hands over; closed only when the
\* queue is empty and closed; and with the queue empty and open it waits.
C17_WaitPop ==
    /\ [][\A t \in QThreads :
             QWaitPopReturns(t) =>
                 /\ q_th'[t].status \in {"success", "closed"}
                 /\ (q_th'[t].status = "success") =
                        (q_buf # <<>> /\ q_buf' = Tail(q_buf) /\ q_th'[t].val = Head(q_buf))
                 /\ q_th'[t].status = "closed" => q_buf = <<>> /\ q_closed]_vars
    /\ [][\A t \in QThreads :
             /\ q_th[t].pc = "locked" /\ q_th[t].op = "wait_pop"
             /\ q_buf = <<>> /\ ~q_closed
             /\ q_th'[t] # q_th[t]
             => q_th'[t].pc = "waiting" /\ t \in q_cond']_vars
    /\ [][\A t \in QThreads : QWaitPopReturns(t) /\ q_buf # <<>> =>
             q_th'[t].status = "success"]_vars

\* wait_pop() has returned a value from the closed queue, and a wait_pop()
\* has returned closed.
C17_Witness ==
    /\ q_closed
    /\ \E t, u \in QThreads :
          /\ q_th[t].pc = "idle" /\ q_th[t].op = "wait_pop" /\ q_th[t].status = "success"
          /\ q_th[u].pc = "idle" /\ q_th[u].op = "wait_pop" /\ q_th[u].status = "closed"
    /\ \E i \in 1..Len(q_out) : \E t \in QThreads : q_th[t].val = q_out[i]

\* C18: try_push() and try_pop() never wait for the lock: no thread in one
\* of them is at the lock while another thread holds it.
C18_TryNeverParks ==
    \A t \in QThreads :
        q_th[t].op \in {"try_push", "try_pop"} /\ q_th[t].pc = "lock" => q_lock = 0

(***************************************************************************)
(* Properties of task                                                      *)
(***************************************************************************)

\* The ways an empty task is made.
TKMadeEmpty == {"default", "nullptr", "moved_from"}

\* C19: a task that was made empty converts to false, its invocation
\* signals bad_function_call, and the invocation calls no target.
C19_EmptyCall ==
    /\ [](\A i \in TKObjects :
             tk_obj[i].live /\ tk_obj[i].made \in TKMadeEmpty => ~TKBool(tk_obj[i].v))
    /\ [][\A i \in TKObjects :
             TKInvoke(i) /\ tk_obj[i].made \in TKMadeEmpty =>
                 /\ tk_last'.result = "bad_function_call"
                 /\ tk_calls' = tk_calls]_vars

\* A task from which another was made has been invoked, after the other had
\* called the target.
C19_Witness ==
    /\ tk_last.op = "invoke"
    /\ tk_last.result = "bad_function_call"
    /\ tk_obj[tk_last.dst].made = "moved_from"
    /\ \E g \in TKTargets : tk_calls[g] > 0

\* C20: the assignment of a non-empty task to a task made by task() or
\* task(nullptr) returns, the destination is non-empty then and the source
\* is empty.
C20_MoveAssign ==
    tk_last.op = "assign" /\ tk_last.fresh =>
        /\ tk_last.result = "ok"
        /\ TKBool(tk_obj[tk_last.dst].v)
        /\ ~TKBool(tk_obj[tk_last.src].v)

(***************************************************************************)
(* Properties of futex_cond_var, second part                               *)
(***************************************************************************)

\* C22: a notify_all() that finds waiters parked wakes one of them and moves
\* the others to the lock's word; every one of them comes back from wait()
\* with the lock in the end, and never two threads hold the lock.
C22_NotifyAll ==
    /\ [][\A t \in FThreads :
             CVNotifyAllRequeue(t) /\ cv_waitq # {} =>
                 /\ cv_waitq' = {}
                 /\ \E w \in cv_waitq :
                       /\ f_pc'[w] = "cv_dec"
                       /\ \A u \in cv_waitq \ {w} :
                             f_pc'[u] = "cv_parked" /\ u \in fl_waitq'[cv_owner]]_vars
    /\ \A w \in FThreads : (w \in f_all.pending) ~> FReturnedFromWait(w)
    /\ [](Cardinality({t \in FThreads : f_holds[t]}) <= 1)

\* A waiter that notify_all() moved to the lock's word has come back from
\* wait() with the lock, after the waiter that was woken has run to its end.
C22_Witness ==
    \E w \in f_all.moved :
        /\ FReturnedFromWait(w)
        /\ \E u \in FThreads \ {w} :
              /\ FFinished(u)
              /\ Len(f_script[u]) > 1 /\ f_script[u][2] = "wait"

(***************************************************************************)
(* Properties of lock_guard                                                *)
(***************************************************************************)

\* C25: lock(), lock(backoff) and try_lock() on a guard that owns the lock
\* throw resource_deadlock_would_occur, unlock() on a guard that does not
\* throws operation_not_permitted, and both leave the lock and the guard as
\* they are; no other call is made on such a guard; so between its calls a
\* guard owns the lock exactly when its thread holds the lock, and the word
\* of a lock that is held is not 0.
C25_GuardMisuse ==
    /\ [][\A t \in FThreads :
             FLockOwned(t) \/ FTryLockOwned(t) \/ FUnlockNotOwned(t) =>
                 /\ f_fault'[t].error = IF f_owns[t] THEN "resource_deadlock_would_occur"
                                                    ELSE "operation_not_permitted"
                 /\ f_fault'[t].op = "unlock" <=> ~f_owns[t]
                 /\ <<fl_futex, fl_waitq, f_owns, f_holds>>' = <<fl_futex, fl_waitq, f_owns, f_holds>>]_vars
    /\ [][\A t \in FThreads :
             f_pc[t] = "ready" /\ f_fault'[t] = f_fault[t]
             /\ (f_pc'[t] # "ready" \/ f_owns'[t] # f_owns[t] \/ f_holds'[t] # f_holds[t]) =>
                 IF f_owns[t] THEN f_holds[t] /\ ~f_holds'[t] /\ ~f_owns'[t]
                              ELSE ~f_holds[t] /\ (f_owns'[t] \/ f_pc'[t] # "ready")]_vars
    /\ [](\A t \in FThreads : f_pc[t] = "ready" => (f_owns[t] <=> f_holds[t]))
    /\ [](\A t \in FThreads : f_holds[t] => fl_futex[f_mutex[t]] # 0)

\* A thread that holds a lock has called try_lock() on its guard, and a
\* thread that called unlock() on a guard that did not own that lock is now
\* parked on it.
C25_Witness ==
    \E a, b \in FThreads :
        /\ f_mutex[a] = f_mutex[b]
        /\ f_holds[a] /\ f_owns[a]
        /\ f_fault[a] = [op |-> "try_lock", error |-> "resource_deadlock_would_occur"]
        /\ f_fault[b] = [op |-> "unlock", error |-> "operation_not_permitted"]
        /\ f_pc[b] = "lk_parked"

\* C24: the lock of the first wait() is recorded in owner_ and owner_ never
\* changes afterwards; a wait() with a guard on another lock terminates the
\* program, leaving the waiter count and every lock as they are.
C24_OneOwner ==
    /\ [][cv_owner # 0 => cv_owner' = cv_owner]_vars
    /\ [][\A t \in FThreads :
             CVWaitStart(t) /\ CVOwnerDiffers(f_mutex[t]) =>
                 /\ f_pc'[t] = "terminated"
                 /\ cv_count' = cv_count
                 /\ fl_futex' = fl_futex
                 /\ f_holds' = f_holds]_vars
    /\ [](\A t \in FThreads :
             f_pc[t] \in {"cv_load", "cvu_sub", "cvu_store", "cvu_wake", "cv_wait", "cv_parked",
                          "cv_dec", "cv_xchg", "cvl_wait", "cvl_parked"} =>
                 cv_owner = f_mutex[t])

\* The thread has called wait() and has come back from futex_wait on the
\* change counter.
FPastWait(w) ==
    /\ \E i \in 1..f_ip[w] : f_script[w][i] = "wait"
    /\ f_pc[w] \notin {"cv_owner", "terminated", "cv_load", "cvu_sub", "cvu_store", "cvu_wake", "cv_wait", "cv_parked"}

\* C23 as stated: of the threads that are inside wait() and have let go of
\* the lock, one notify_one() makes at most one go on.  (In NotifyOneScript
\* notify_one() is called once, with the lock held: every waiter it finds
\* inside wait() has let go of the lock.)
C23_Original ==
    f_script = NotifyOneScript /\ f_spurious = 0 =>
        Cardinality({w \in FThreads : FPastWait(w)}) <= 1

\* C23, amended: one notify_one() takes at most one thread out of those
\* parked by futex_wait on the change counter, and makes no other thread
\* leave a wait queue; besides, a waiter that has read the change counter
\* and is not parked yet comes back from futex_wait at once when the counter
\* has changed since.
C23_Amended ==
    /\ [][\A t \in FThreads :
             CVNotifyOneStart(t) \/ CVNotifyOneLoad(t) \/ CVNotifyOneWake(t) =>
                 /\ fl_waitq' = fl_waitq
                 /\ cv_waitq' \subseteq cv_waitq
                 /\ Cardinality(cv_waitq \ cv_waitq') <= 1
                 /\ Cardinality({u \in FThreads \ {t} : f_pc'[u] # f_pc[u]}) <= 1
                 /\ \A u \in FThreads \ {t} : f_pc'[u] # f_pc[u] => u \in cv_waitq
                 /\ ~CVNotifyOneWake(t) => cv_waitq' = cv_waitq]_vars
    /\ [][\A w \in FThreads :
             CVWaitFutex(w) => (f_pc'[w] = "cv_parked") = (cv_futex = f_value[w])]_vars

\* The one notify_one() of NotifyOneScript has woken a parked waiter and is
\* over, and the other waiter is still parked.
C23_Witness ==
    /\ f_script = NotifyOneScript
    /\ f_spurious = 0
    /\ FFinished(3)
    /\ \E w, u \in FThreads :
          /\ FReturnedFromWait(w)
          /\ f_pc[u] = "cv_parked" /\ u \in cv_waitq

\* C21: a task constructed from a target and then moved any number of times
\* by the move constructor calls that target, once and no other, when it is
\* invoked; and every task the chain has moved from is empty.
C21_MoveChain ==
    /\ [](\A i \in TKObjects :
             tk_obj[i].live /\ tk_obj[i].made = "moved_from" =>
                 ~TKBool(tk_obj[i].v) /\ tk_obj[i].v.invoke = "invalid_invoke")
    /\ [][\A i \in TKObjects :
             TKInvoke(i) /\ tk_obj[i].origin # 0 =>
                 /\ tk_last'.result = "called"
                 /\ tk_calls' = [tk_calls EXCEPT ![tk_obj[i].origin] = @ + 1]]_vars

\* A task at the end of a chain of three moves has been invoked and has
\* called its target for the first time, and a task of the chain that was
\* moved from is still there.
C21_Witness ==
    /\ tk_last.op = "invoke"
    /\ tk_last.result = "called"
    /\ tk_obj[tk_last.dst].moves = MaxTaskMoves
    /\ tk_calls[tk_obj[tk_last.dst].origin] = 1
    /\ \E j \in TKObjects : tk_obj[j].live /\ tk_obj[j].made = "moved_from"

(***************************************************************************)
(* Properties of a ring that is filled, and of its observers               *)
(***************************************************************************)

\* The number of tickets of its kind taken before ticket count, since the
\* start.
RAhead(count) == RDiff(r_base, count)

\* The value of the wait_pop with this ticket has been moved out of its
\* slot (get_value, line 612).
RTakenOut(ticket) ==
    \/ \E d \in r_deliv : d[2] = ticket
    \/ \E c \in RCons : r_th[c].count = ticket /\ r_th[c].pc \in {"wake", "fwake"}

\* A call of wait_push has passed wait_tail().
RPastTail(p) == r_th[p].pc \in {"write", "wake", "fwake"}

\* C26: on a ring of RingSize slots that is empty at the start, each of the
\* first RingSize calls of wait_push goes from its first look at its slot
\* to put_value() without waiting and returns success, and a later one
\* passes wait_tail() only when the wait_pop one lap before it has moved
\* its value out of the slot.
C26_FullRingBlocks ==
    /\ [](\A p \in RProd :
             RPastTail(p) /\ RAhead(r_th[p].count) >= RingSize =>
                 RTakenOut((r_th[p].count - RingSize + RMod) % RMod))
    /\ [][\A p \in RProd :
             /\ RLoad(p) /\ RAhead(r_th[p].count) < RingSize =>
                    r_th'[p].pc = "write"
             /\ RWake(p) /\ RAhead(r_th[p].count) < RingSize =>
                    r_th'[p].st = "success" /\ r_th[p].val \in r_pushed']_vars

\* On a new ring, RingSize calls of wait_push have returned success before
\* any wait_pop moved a value out, and the next call of wait_push has passed
\* wait_tail() after the first value was popped.
C26_Witness ==
    /\ r_base = 0
    /\ RPastTail(1)
    /\ r_th[1].count = RingSize
    /\ Cardinality(r_pushed) = RingSize
    /\ r_deliv = {<<<<1, 1>>, 0>>}

\* A call of is_full() returns, and no wait_pop ran during the call.
RIsFullReturns == RIsFullTail /\ r_obs'.res # "none"

RIsEmptyReturnsTrue == RIsEmptyHead /\ r_obs'.res = "empty"

\* A wait_pop that has taken its ticket and has not returned yet has the
\* value in its slot or in its hands.
RClaimed(v) ==
    \E c \in RCons :
        /\ r_th[c].pc \notin {"idle", "done", "ticket"}
        /\ r_th[c].val = v \/ r_cell[RSlotOf(r_th[c].count)] = v

\* C28 as stated: when is_empty() returns true while no producer is inside
\* a push, every value ever pushed has been moved out to a consumer by a
\* wait_pop that returned success.
C28_Original == [][RIsEmptyReturnsTrue => r_pushed \subseteq RDelivered]_vars

\* C28, amended: when is_empty() returns true while no producer is inside
\* a push, every value ever pushed has been delivered by a wait_pop that
\* returned success, or a wait_pop that is in progress has taken the ticket
\* of its slot.
C28_Amended ==
    [][RIsEmptyReturnsTrue =>
          \A v \in r_pushed : v \in RDelivered \/ RClaimed(v)]_vars

\* is_empty() has returned true with no push in progress while a value
\* that was pushed is still in its slot: the consumer that took the
\* ticket of the slot has not read it yet.
C28_Witness ==
    /\ r_obs.pc = "idle"
    /\ r_obs.res = "empty"
    /\ RDiff(r_head, r_tail) = r_obs.diff
    /\ RNoPush
    /\ \E v \in r_pushed \ RDelivered :
          \E c \in RCons : r_th[c].pc = "read" /\ r_cell[RSlotOf(r_th[c].count)] = v

\* The number of tickets of its kind taken since the start before this
\* one, counted without regard to the width of the counters.
ROffset(ticket) == (ticket - r_base + RMod) % RMod

\* C29: on a ring whose head_ and tail_ wrap around, closed once after the
\* last push, every value is delivered once, to one ticket, a producer's
\* values go to tickets in the order of its pushes (a single producer's
\* n-th value to the n-th ticket), no ticket at or past last_ gets a
\* value, no push is turned away, and in the end every consumer has got
\* CLOSED and the values delivered are the values pushed, on consecutive
\* tickets.
C29_WrapAround ==
    /\ [](/\ RDelivered \subseteq RPushedOrInFlight
          /\ \A d, e \in r_deliv : (d[1] = e[1] \/ d[2] = e[2]) => d = e
          /\ \A d, e \in r_deliv :
                (d[1][1] = e[1][1] /\ d[1][2] < e[1][2]) =>
                    ROffset(d[2]) < ROffset(e[2])
          /\ RSingleProd \/ r_prod[2].left + r_prod[2].next = 1 =>
                \A d \in r_deliv : ROffset(d[2]) = d[1][2] - 1
          /\ r_closed = CloseClosed =>
                \A d \in r_deliv : ROffset(d[2]) < ROffset(r_last)
          /\ \A p \in RProd : r_th[p].st # "closed")
    /\ <>[](/\ RQuiescent
            /\ RDelivered = r_pushed
            /\ {ROffset(d[2]) : d \in r_deliv} = 0..(Cardinality(r_pushed) - 1))

\* A ring that started two tickets before the wrap has been filled and
\* emptied and closed: seventeen values went through it, the last of them
\* in a slot that was used before the counters wrapped around.
C29_Witness ==
    /\ r_base = RMod - RingWrapMargin
    /\ RQuiescent
    /\ r_closed = CloseClosed
    /\ Cardinality(r_deliv) = RingSize + 1
    /\ <<<<1, RingSize + 1>>, RingSize - RingWrapMargin>> \in r_deliv

\* A call has taken its ticket and is in wait_tail() or in the first loop
\* of wait_head(): it has not got its slot yet.
RWaitsForSlot(t) ==
    /\ r_th[t].pc \in {"load", "past", "wait", "futex", "parked", "reload"}
    /\ r_th[t].loop \in {"tail", "head1"}

\* The call of thread t gets its slot: wait_tail() returns success (line
\* 491), or wait_head() sees its ticket in the slot (line 515).
RGetsSlot(t) ==
    /\ RWaitsForSlot(t)
    /\ r_th'[t].pc \in {"write", "read", "ticket"} \/ r_th'[t].loop = "head2"

RSameKind(t, u) == (t \in RProd /\ u \in RProd) \/ (t \in RCons /\ u \in RCons)

\* C30 as stated: of two producers, and of two consumers, the one with the
\* smaller ticket gets its slot before the one with the larger ticket.
C30_Original ==
    [][\A t, u \in RProd \cup RCons :
          (RSameKind(t, u) /\ t # u /\ RGetsSlot(t) /\ RWaitsForSlot(u)) =>
              ROffset(r_th[t].count) < ROffset(r_th[u].count)]_vars

\* C30, amended: of two producers, and of two consumers, whose tickets go
\* to the same slot, the one with the smaller ticket gets the slot before
\* the one with the larger ticket.
C30_Amended ==
    [][\A t, u \in RProd \cup RCons :
          (/\ RSameKind(t, u) /\ t # u /\ RGetsSlot(t) /\ RWaitsForSlot(u)
           /\ RSlotOf(r_th[t].count) = RSlotOf(r_th[u].count)) =>
              ROffset(r_th[t].count) < ROffset(r_th[u].count)]_vars

\* A consumer has got the slot of its ticket while another consumer, whose
\* ticket is one lap later, waits for the same slot.
C30_Witness ==
    \E t, u \in RCons :
        /\ r_th[t].pc = "read"
        /\ RWaitsForSlot(u)
        /\ r_th[u].pc = "wait"
        /\ r_th[u].count = r_th[t].count + RingSize

(***************************************************************************)
(* Properties of a ring whose values may throw                             *)
(***************************************************************************)

\* A call of wait_pop finds status_invalid in its slot and goes for a new
\* ticket (wait_head line 525-526, wait_pop lines 392-393).
RFindsInvalid(c) ==
    /\ c \in RCons
    /\ r_th[c].pc \notin {"idle", "done", "ticket"}
    /\ r_th'[c].pc = "ticket"

\* C31: the consumer that finds its slot marked invalid leaves the token of
\* the next lap (token + mask_ + 1) in the slot when it goes for a new
\* ticket, and a producer that waits for the slot one lap later does not
\* find the invalid token of the lap before in it once that consumer has
\* moved on.
C31_InvalidReleased ==
    [][\A c \in RCons :
          RFindsInvalid(c) =>
              r_word'[RSlotOf(r_th[c].count)] = RTokenAfterPop(r_th[c].count)]_vars

(***************************************************************************)
(* Properties of a ring that is closed                                     *)
(***************************************************************************)

\* A call of wait_push that began after a call of close() had returned is
\* in progress.
RPushAfterClose(p) == r_prod[p].after /\ r_th[p].pc \notin {"idle", "done"}

\* C32: a call of wait_push that begins after close() has returned never
\* gets its slot, so that it writes no value and no token, and it returns
\* closed; and a producer that does write in a closed ring has a ticket
\* below last_.
C32_PushAfterClose ==
    \A p \in RProd :
        /\ RPushAfterClose(p) => ~RPastTail(p)
        /\ (r_prod[p].after /\ r_th[p].pc = "idle") => r_th[p].st = "closed"
        /\ (RPastTail(p) /\ r_closed = CloseClosed /\ r_applied = 1) =>
               RDiff(r_th[p].count, r_last) > 0

\* The same holds of the rings whose producers share an atomic tail_.
C32_AtomicTail ==
    \A p \in RProd :
        ~RSingleProd =>
            /\ RPushAfterClose(p) => ~RPastTail(p)
            /\ (r_prod[p].after /\ r_th[p].pc = "idle") => r_th[p].st = "closed"
            /\ (RPastTail(p) /\ r_closed = CloseClosed /\ r_applied = 1) =>
                   RDiff(r_th[p].count, r_last) > 0

\* A call of wait_push that began after close() had returned has got its
\* slot in a ring with a single producer.
C32_WritesAfterClose ==
    \E p \in RProd : RSingleProd /\ RPushAfterClose(p) /\ RPastTail(p)

(***************************************************************************)
(* The flags of a slot word                                                *)
(***************************************************************************)

\* The step takes status_closed out of the word of slot s.
RClosedCleared(s) ==
    RHas(r_word[s], StatusClosed) /\ ~RHas(r_word'[s], StatusClosed)

\* The step is the wake() of put_value or get_value on slot s, which
\* replaces the whole word by the next token.
RWakesSlot(s) ==
    \E t \in RProd \cup RCons :
        /\ r_th[t].pc = "wake"
        /\ RSlotOf(r_th[t].count) = s
        /\ r_word'[s] = IF t \in RProd THEN RTokenAfterPush(r_th[t].count)
                        ELSE RTokenAfterPop(r_th[t].count)

\* C33 as stated: once status_closed is set in a slot's word it stays set;
\* no wake, wait or close clears it.
C33_Original == [][\A s \in RSlots : ~RClosedCleared(s)]_vars

\* C33: status_closed, once set in a slot's word, is cleared by nothing but
\* the wake() of a put_value or get_value on that slot, which stores the
\* next token over the whole word; no wait and no close clears it.
C33_Amended == [][\A s \in RSlots : RClosedCleared(s) => RWakesSlot(s)]_vars

\* close() has set status_closed in every slot and returned, and a slot's
\* word is without the flag again.
C33_Witness ==
    /\ r_slot \in {"futex", "synch"}
    /\ r_closes = 1
    /\ RCloseCompleted
    /\ \E s \in RSlots : ~RHas(r_word[s], StatusClosed)

\* The word of the slot that thread t has a ticket for.
RWordOf(t) == r_word[RSlotOf(r_th[t].count)]

\* C34 as stated: a producer writes a slot's value cell only when the slot
\* holds the producer's ticket and none of the four flags.
C34_Original ==
    \A p \in RProd :
        r_th[p].pc = "write" => RWordOf(p) = RTicketOf(r_th[p].count)

\* C34: a producer writes a slot's value cell only when the slot holds the
\* producer's ticket and neither status_valid nor status_invalid;
\* status_waiting and status_closed may be set.
C34_Amended ==
    \A p \in RProd :
        r_th[p].pc = "write" =>
            /\ RTicketOf(RWordOf(p)) = RTicketOf(r_th[p].count)
            /\ ~RHas(RWordOf(p), StatusValid)
            /\ ~RHas(RWordOf(p), StatusInvalid)

\* A producer is about to write the value cell of a slot whose word holds
\* its ticket and status_waiting.
C34_Witness ==
    \E p \in RProd :
        /\ r_th[p].pc = "write"
        /\ RTicketOf(RWordOf(p)) = RTicketOf(r_th[p].count)
        /\ RHas(RWordOf(p), StatusWaiting)

\* A producer is about to write the value cell of a slot whose word holds
\* its ticket and status_closed.
C34_WritesClosed ==
    \E p \in RProd :
        /\ r_th[p].pc = "write"
        /\ RTicketOf(RWordOf(p)) = RTicketOf(r_th[p].count)
        /\ RHas(RWordOf(p), StatusClosed)

(***************************************************************************)
(* The wake-ups of futex_lock                                              *)
(***************************************************************************)

\* The threads that the step takes out of the kernel's queue of lock l.
FLeavesQueue(l) == fl_waitq[l] \ fl_waitq'[l]

\* The step is the fetch_sub of an unlock() by thread t.
FReleases(t) == f_holds[t] /\ ~f_holds'[t]

\* Thread t is in the loop of lock() lines 104-106 or of wait() lines
\* 298-299, between a return of futex_wait and the exchange after it.
FAfterLockWait(t) == f_pc[t] \in {"lk_xchg", "cv_xchg"}

\* C35: a step takes at most one thread out of the queue of a lock; an
\* unlock() whose fetch_sub finds 1 returns without a store and without a
\* wake; a thread that returns from futex_wait on the lock word is not the
\* holder by that (it goes on to the exchange; a waiter of the condition
\* variable that was requeued goes there by way of count_.fetch_sub), and
\* when its exchange finds the lock taken it leaves 2 in the word and goes
\* to futex_wait again, still not the holder.
C35_UnlockWakesOne ==
    [][/\ \A l \in FLocks : Cardinality(FLeavesQueue(l)) <= 1
       /\ \A t \in FThreads :
             /\ (FReleases(t) /\ fl_futex[f_mutex[t]] = 1) =>
                    /\ f_pc'[t] \notin {"ul_store", "ul_wake", "cvu_store", "cvu_wake"}
                    /\ fl_futex'[f_mutex[t]] = 0
                    /\ fl_waitq' = fl_waitq
             /\ (t \in FLeavesQueue(f_mutex[t])) =>
                    /\ f_pc'[t] \in {"lk_xchg", "cv_xchg", "cv_dec"}
                    /\ ~f_holds'[t]
             /\ (FAfterLockWait(t) /\ f_pc'[t] # f_pc[t] /\ fl_futex[f_mutex[t]] # 0) =>
                    /\ f_pc'[t] \in {"lk_wait", "cvl_wait"}
                    /\ fl_futex'[f_mutex[t]] = 2
                    /\ ~f_holds'[t]
             /\ (f_pc[t] \in {"lk_wait", "cvl_wait"} /\ f_pc'[t] # f_pc[t]
                    /\ fl_futex[f_mutex[t]] = 2) =>
                    /\ t \in fl_waitq'[f_mutex[t]]
                    /\ ~f_holds'[t]]_vars

\* A futex_wait on the lock word has returned unwoken, and a thread is
\* parked on the word of a lock that another thread holds.
C35_Witness ==
    /\ f_spurious > 0
    /\ \E t, h \in FThreads :
          /\ t # h
          /\ f_pc[t] = "lk_parked"
          /\ t \in fl_waitq[f_mutex[t]]
          /\ f_holds[h]
          /\ f_mutex[h] = f_mutex[t]
          /\ fl_futex[f_mutex[t]] = 2

\* Thread t is parked in futex_wait on the word of its lock.
FParkedOnLock(t) == t \in fl_waitq[f_mutex[t]]

\* The fetch_sub of an unlock() by thread t goes on to the store and the
\* futex_wake.
FUnlockGoesToWake(t) == f_pc'[t] \in {"ul_store", "cvu_store"}

RParkedOnSlot(u) == u \in r_parked[RSlotOf(r_th[u].count)]

\* The word x = t | status_waiting that thread u handed to futex_wait.
RExpected(u) == RWith(r_th[u].t, StatusWaiting)

\* The slot that thread w works on: a closer is at the slot last_ + i of its
\* loop (lines 286-289), a producer or consumer at the slot of its ticket.
RSlotFor(w) ==
    IF w \in RClosers THEN RSlotOf(r_last + r_th[w].i) ELSE RSlotOf(r_th[w].count)

\* A thread is at the futex_wake of futex::wake (line 186) or of
\* futex::close (line 169) on slot s.
RWakePending(s) == \E w \in RThreads : r_th[w].pc = "fwake" /\ RSlotFor(w) = s

\* The step is a wake() or a close() of thread w that puts a new word into
\* its slot.
RStoresWord(w) ==
    /\ r_th[w].pc = IF w \in RClosers THEN "slots" ELSE "wake"
    /\ r_th'[w] # r_th[w]
    /\ r_word'[RSlotFor(w)] # r_word[RSlotFor(w)]

\* C37: with futex slots, a thread is parked only while the slot holds the
\* word it handed to futex_wait, or while a futex_wake on the slot is about
\* to be made; every wake() and close() that replaces a word with
\* status_waiting goes on to a futex_wake, which leaves no thread parked on
\* the slot; a wait() whose word is stale returns without parking; and a
\* parked thread whose slot word has changed is woken in the end.
C37_NoLostWake ==
    /\ [](r_slot = "futex" =>
            \A u \in RProd \cup RCons :
                (RParkedOnSlot(u) /\ RWordOf(u) # RExpected(u)) =>
                    RWakePending(RSlotOf(r_th[u].count)))
    /\ [][r_slot = "futex" =>
            /\ \A w \in RThreads :
                  /\ (RStoresWord(w) /\ RHas(r_word[RSlotFor(w)], StatusWaiting)) =>
                         r_th'[w].pc = "fwake"
                  /\ (r_th[w].pc = "fwake" /\ r_th'[w] # r_th[w]) =>
                         r_parked'[RSlotFor(w)] = {}
            /\ \A u \in RProd \cup RCons :
                  (r_th[u].pc \in {"wait", "futex"} /\ r_th'[u].pc # r_th[u].pc
                     /\ RWordOf(u) \notin {r_th[u].t, RExpected(u)}) =>
                        /\ r_th'[u].pc \notin {"futex", "parked"}
                        /\ r_parked' = r_parked
                        /\ r_word' = r_word]_vars
    /\ \A u \in RCons :
          (r_slot = "futex" /\ RParkedOnSlot(u) /\ RWordOf(u) # RExpected(u))
              ~> ~RParkedOnSlot(u)

\* A thread is parked on a futex slot whose word has changed by a wake()
\* or a close() that is about to make its futex_wake.
C37_Witness ==
    /\ r_slot = "futex"
    /\ \E u \in RProd \cup RCons :
          /\ RParkedOnSlot(u)
          /\ RWordOf(u) # RExpected(u)
          /\ RWakePending(RSlotOf(r_th[u].count))

(***************************************************************************)
(* A ring that is closed while values are pushed                           *)
(***************************************************************************)

\* No value was delivered twice, and every delivered value was pushed.
RNoDuplicate ==
    /\ RDelivered \subseteq RPushedOrInFlight
    /\ \A d, e \in r_deliv : d[1] = e[1] => d = e

\* C38: when close() is called once, at any time, no value is delivered
\* twice, and once no call is in progress and the consumers have all got
\* CLOSED, every value whose wait_push returned success has been delivered.
C38_ConcurrentClose ==
    r_closes = 1 =>
        /\ RNoDuplicate
        /\ RQuiescent => RDelivered = r_pushed

\* The same holds of the rings whose producers share an atomic tail_.
C38_AtomicTail ==
    (r_closes = 1 /\ ~RSingleProd) =>
        /\ RNoDuplicate
        /\ RQuiescent => RDelivered = r_pushed

\* When close() is called once, a consumer that returns CLOSED has a ticket
\* at or past last_.
C38_ClosedPastLast ==
    [][\A c \in RCons :
          (r_closes = 1 /\ r_th[c].pc = "past" /\ r_th'[c].pc = "done") =>
              RSigned((r_last - r_th[c].count + RMod) % RMod) <= 0]_vars

\* A value whose wait_push returned success is not delivered although
\* close() was called once and all consumers have got CLOSED.
C38_ValueLost ==
    /\ r_closes = 1
    /\ RQuiescent
    /\ r_pushed \ RDelivered # {}

(***************************************************************************)
(* The target of a task and its cell                                       *)
(***************************************************************************)

\* Task object i holds a target: operator bool(), lines 372-375.
TKHolds(i) == tk_obj[i].live /\ TKBool(tk_obj[i].v)

\* The task objects whose memory_ points to cell c.
TKOwners(c) ==
    {i \in TKObjects : TKHolds(i) /\ TKLarge(tk_obj[i].v.mem) /\ tk_mem.at[i].ptr = c}

\* Every small target that is alive is in the memory_ of a task that holds
\* it, and every task that holds a large target points to a cell.
TKTargetsHeld ==
    \A i \in TKObjects :
        /\ tk_mem.at[i].obj <=> (TKHolds(i) /\ ~TKLarge(tk_obj[i].v.mem))
        /\ (TKHolds(i) /\ TKLarge(tk_obj[i].v.mem)) =>
               /\ tk_mem.at[i].ptr # 0
               /\ tk_mem.heap[tk_mem.at[i].ptr].obj

\* The destructor of a task without a target destroyed and deallocated
\* nothing; that of a task with a target destroyed a target that was alive.
TKDestroyedOnce ==
    tk_last.op = "destroy" =>
        /\ ~tk_mem.last.held => (tk_mem.last.destroyed = "none" /\ tk_mem.last.cell = 0)
        /\ tk_mem.last.held => tk_mem.last.destroyed = "alive"

\* C39: from construction through any chain of move constructions to the
\* destruction of the task objects, the target is destroyed once and its
\* cell is deallocated once: a cell that is allocated holds a target that
\* is alive and belongs to one task, every target that is alive belongs to
\* a task that holds it, a destructor destroys a target that was alive and
\* hands its cell to the allocator it came from, and the destructor of an
\* empty or moved-from task destroys and deallocates nothing.
C39_DestroyedOnce ==
    /\ TKTargetsHeld
    /\ TKDestroyedOnce
    /\ \A c \in TKCells :
          tk_mem.heap[c].by # "none" =>
              (tk_mem.heap[c].obj /\ Cardinality(TKOwners(c)) = 1)
    /\ tk_mem.last.cell # 0 => tk_mem.last.by = tk_mem.last.through

\* The same with the cells excepted that an allocator other than
\* allocator_type() handed out and that a moved-to task gave to
\* allocator_type(): such a cell may stay allocated with no task and no
\* target.
C39_ButForeign ==
    /\ TKTargetsHeld
    /\ TKDestroyedOnce
    /\ \A c \in TKCells :
          tk_mem.heap[c].by # "none" =>
              \/ tk_mem.heap[c].obj /\ Cardinality(TKOwners(c)) = 1
              \/ /\ tk_mem.heap[c].by # "default"
                 /\ ~tk_mem.heap[c].obj
                 /\ TKOwners(c) = {}
    /\ tk_mem.last.cell # 0 =>
          \/ tk_mem.last.by = tk_mem.last.through
          \/ /\ tk_mem.last.by # "default"
             /\ tk_mem.last.through = "default"

\* The destructor of a moved-to task has handed a cell to allocator_type()
\* that another allocator had handed out.
C39_ForeignDeallocate ==
    /\ tk_last.op = "destroy"
    /\ tk_mem.last.cell # 0
    /\ tk_mem.last.by = "other"
    /\ tk_mem.last.through = "default"

\* A large target went through a chain of moves and was destroyed, and its
\* cell, from allocator_type(), is free again, with no task object left.
C39_AllDestroyed ==
    /\ tk_last.op = "destroy"
    /\ tk_mem.last.by = "default"
    /\ tk_mem.last.through = "default"
    /\ \A i \in TKObjects : ~tk_obj[i].live
    /\ \A c \in TKCells : tk_mem.heap[c] = TKFreeCell
====
